---- MODULE Spec2Model ----
(***************************************************************************)
(* The context-key expression compiler: the Scanner (scanner.ts) and the   *)
(* Parser (parser.ts) of vs/platform/contextkey/common.                    *)
(*                                                                         *)
(* An input string is a sequence of one-character strings.  Offsets and    *)
(* cursors are 0-based as in the source; CharAt and Substring translate    *)
(* them to the 1-based sequences of TLA+.                                  *)
(***************************************************************************)
EXTENDS Integers, Sequences, FiniteSets, TLC

VARIABLES
    s_input,         \* Scanner._input
    s_start,         \* Scanner._start
    s_current,       \* Scanner._current
    s_errorTokens,   \* Scanner._errorTokens
    emitted,         \* the tokens the scanner's iterator has yielded since reset
    scanDone,        \* the iterator has yielded EOF and returned
    p_tokens,        \* Parser._tokens
    p_current,       \* Parser._current
    p_parsingErrors, \* Parser._parsingErrors
    result,          \* what the last call of Parser.parse returned
    parseArg,        \* the input the last call of Parser.parse was given
    prevErrorCount,  \* _errorTokens.length when reset was last called on a used
                     \* scanner, -1 while the scanner has been reset only once
    reported         \* the last call of Scanner.reportError: its token and outcome

vars == <<s_input, s_start, s_current, s_errorTokens, emitted, scanDone,
          p_tokens, p_current, p_parsingErrors, result, parseArg,
          prevErrorCount, reported>>

scannerVars == <<s_input, s_start, s_current, s_errorTokens>>
parserVars == <<p_tokens, p_current, p_parsingErrors, result, parseArg>>
reportVars == <<reported>>

-----------------------------------------------------------------------------
(* Bounds of the model *)

\* inputs of the scanner specification: at most this many ScanVocab words
MaxScanWords == 3
MaxIdentifierWords == 4

\* inputs of the parser specification: at most this many ParseVocab words
MaxParseWords == 3

\* a scanner that has finished a scan is reset to an input of at most this
\* many RescanVocab words
MaxRescanWords == 1

\* a parser that has parsed before is given an input of at most this many
\* ReparseVocab words
MaxReparseWords == 1

\* inputs of the regex-literal specification: at most this many RegexVocab
\* words
MaxRegexWords == 5

\* inputs of the keyword specification: at most this many KeywordVocab words
MaxKeywordWords == 3

\* tokens given to reportError: lexemes of at most this many ReportVocab
\* characters
MaxReportLexeme == 3

\* tokens given to reportError: offsets up to this
MaxReportOffset == 1

\* inputs of the precedence specification: at most this many PrecedenceVocab
\* words
MaxPrecedenceWords == 4

\* inputs of the comparison specification: at most this many CompareVocab
\* words
MaxCompareWords == 3

\* inputs of the regex-match specification: the text after =~ holds at most
\* this many MatchVocab words
MaxMatchWords == 4

\* inputs of the normalisation specification: at most this many NormalVocab
\* words
MaxNormalWords == 4
MaxRoundTripWords == 3
MaxBlankWords == 3

-----------------------------------------------------------------------------
(* Strings *)

Min(a, b) == IF a < b THEN a ELSE b

Max(a, b) == IF a > b THEN a ELSE b

\* s[i] of JavaScript, for 0 <= i < s.length
CharAt(s, i) == s[i + 1]

\* s.substring(a, b) of JavaScript for 0 <= a: both ends are clamped to s.length
Substring(s, a, b) == SubSeq(s, Min(a, Len(s)) + 1, Min(b, Len(s)))

\* a token without lexeme (lexeme: undefined)
NoLexeme == <<"undefined">>

LowerCase == {"a", "b", "c", "d", "e", "f", "g", "h", "i", "j", "k", "l", "m",
              "n", "o", "p", "q", "r", "s", "t", "u", "v", "w", "x", "y", "z"}

UpperCase == {"A", "B", "C", "D", "E", "F", "G", "H", "I", "J", "K", "L", "M",
              "N", "O", "P", "Q", "R", "S", "T", "U", "V", "W", "X", "Y", "Z"}

Digits == {"0", "1", "2", "3", "4", "5", "6", "7", "8", "9"}

\* the characters \s of a JavaScript regular expression matches, among those
\* a model input can hold
RegexWhitespace == {" ", "\t", "\n", "\r", "\f"}

-----------------------------------------------------------------------------
(* Scanner *)

TokenType == {"LParen", "RParen", "Neg", "Eq", "NotEq", "Lt", "LtEq", "Gt",
              "GtEq", "RegexOp", "RegexStr", "RegexStrI", "True", "False",
              "In", "Not", "And", "Or", "Str", "QuotedStr", "Error", "EOF"}

Token(type, offset, lexeme) == [type |-> type, offset |-> offset, lexeme |-> lexeme]

\* a keyword map that is also asked for the beginning of the lexeme
KeywordOfPrefix(lexeme) ==
    CASE Len(lexeme) >= 3 /\ SubSeq(lexeme, 1, 3) = <<"n", "o", "t">> -> "Not"
      [] Len(lexeme) >= 2 /\ SubSeq(lexeme, 1, 2) = <<"i", "n">> -> "In"
      [] Len(lexeme) >= 5 /\ SubSeq(lexeme, 1, 5) = <<"f", "a", "l", "s", "e">> -> "False"
      [] Len(lexeme) >= 4 /\ SubSeq(lexeme, 1, 4) = <<"t", "r", "u", "e">> -> "True"
      [] OTHER -> ""

\* Scanner._keywords.get(lexeme), "" when the map has no such key
Keyword(lexeme) ==
    CASE lexeme = <<"n", "o", "t">> -> "Not"
      [] lexeme = <<"i", "n">> -> "In"
      [] lexeme = <<"f", "a", "l", "s", "e">> -> "False"
      [] lexeme = <<"t", "r", "u", "e">> -> "True"
      [] OTHER -> ""

\* a Scanner instance's fields
ScannerState(in, st, cur, errs) ==
    [input |-> in, start |-> st, current |-> cur, errorTokens |-> errs]

\* Scanner.reset(value)
ScannerReset(value) == ScannerState(value, 0, 0, <<>>)

IsAtEnd(sc) == sc.current >= Len(sc.input)

\* "\0" at the end of the input
Peek(sc) == IF IsAtEnd(sc) THEN "\\0" ELSE CharAt(sc.input, sc.current)

IsAlphaNumeric(ch) == ch \in LowerCase \cup UpperCase \cup Digits

IsWhitespace(ch) == ch \in {" ", "\t", "\n", "\r"}

\* an _isStringChar without the angle brackets
IsStringCharNoAngle(peek) ==
    IF IsAlphaNumeric(peek) THEN TRUE
    ELSE IF IsWhitespace(peek) THEN FALSE
    ELSE peek \in {"_", "-", ".", "/", "\\", ":", "*", "?", "%", "+"}

IsStringChar(peek) ==
    IF IsAlphaNumeric(peek) THEN TRUE
    ELSE IF IsWhitespace(peek) THEN FALSE
    ELSE peek \in {"_", "-", ".", "/", "\\", ":", "*", "?", "<", ">", "%", "+"}

\* match[0].length of /^\s*/.exec(input): the pattern has neither the g nor
\* the y flag, so lastIndex is ignored and the match is the whitespace run
\* at the beginning of the input
RECURSIVE WhitespaceMatchLength(_, _)
WhitespaceMatchLength(in, n) ==
    IF n < Len(in) /\ CharAt(in, n) \in RegexWhitespace
    THEN WhitespaceMatchLength(in, n + 1)
    ELSE n

\* an _eatWhitespace that sets the cursor to the end of the match
EatWhitespaceAssign(sc) ==
    [sc EXCEPT !.current = WhitespaceMatchLength(sc.input, 0)]

\* Scanner._eatWhitespace
EatWhitespace(sc) ==
    [sc EXCEPT !.current = @ + WhitespaceMatchLength(sc.input, 0)]

\* the result of a scanner method that returns a token: the token and the
\* fields of the scanner after the call
Scanned(tok, sc) == [token |-> tok, scanner |-> sc]

\* Scanner._token(type, captureLexeme)
ScannerToken(sc, type, captureLexeme) ==
    Scanned(Token(type, sc.start,
                  IF captureLexeme THEN Substring(sc.input, sc.start, sc.current)
                  ELSE NoLexeme),
            sc)

\* a _match that never matches: the cursor stays where it is
ScannerMatchPeekOnly(sc, expected) == sc

\* Scanner._match(expected): the scanner after the call; it has matched
\* exactly if the cursor moved
ScannerMatch(sc, expected) ==
    IF IsAtEnd(sc) THEN sc
    ELSE IF CharAt(sc.input, sc.current) # expected THEN sc
    ELSE [sc EXCEPT !.current = @ + 1]

Matches(sc, expected) == ScannerMatch(sc, expected).current # sc.current

\* an _error that returns the Error token without recording it
ScannerErrorUnrecorded(sc) ==
    LET errToken == Token("Error", sc.start, Substring(sc.input, sc.start, sc.current))
    IN Scanned(errToken,
               IF ~IsAtEnd(sc) THEN [sc EXCEPT !.current = @ + 1] ELSE sc)

\* Scanner._error
ScannerError(sc) ==
    LET errToken == Token("Error", sc.start, Substring(sc.input, sc.start, sc.current))
        pushed == [sc EXCEPT !.errorTokens = Append(@, errToken)]
    IN Scanned(errToken,
               IF ~IsAtEnd(pushed) THEN [pushed EXCEPT !.current = @ + 1] ELSE pushed)

\* the loop of Scanner._string: the cursor after the run of string characters
RECURSIVE StringRunEnd(_)
StringRunEnd(sc) ==
    IF IsStringChar(Peek(sc)) /\ ~IsAtEnd(sc)
    THEN StringRunEnd([sc EXCEPT !.current = @ + 1])
    ELSE sc

\* Scanner._string
ScannerString(sc0) ==
    LET sc == StringRunEnd(sc0)
        lexeme == Substring(sc.input, sc.start, sc.current)
        keyword == Keyword(lexeme)
    IN IF keyword # "" THEN ScannerToken(sc, keyword, FALSE)
       ELSE ScannerToken(sc, "Str", TRUE)

\* the loop of Scanner._quotedString: the cursor at the next ' or at the end
RECURSIVE QuotedRunEnd(_)
QuotedRunEnd(sc) ==
    IF Peek(sc) # "'" /\ ~IsAtEnd(sc)
    THEN QuotedRunEnd([sc EXCEPT !.current = @ + 1])
    ELSE sc

\* a _quotedString that gives up at the first character that is no quote
ScannerQuotedStringShort(sc0) ==
    IF Peek(sc0) = "'"
    THEN Scanned(Token("QuotedStr", sc0.start + 1, <<>>), [sc0 EXCEPT !.current = @ + 1])
    ELSE ScannerError(sc0)

\* Scanner._quotedString
ScannerQuotedString(sc0) ==
    LET sc == QuotedRunEnd(sc0)
    IN IF IsAtEnd(sc) THEN ScannerError(sc)
       ELSE LET closed == [sc EXCEPT !.current = @ + 1]
            IN Scanned(Token("QuotedStr", closed.start + 1,
                             Substring(closed.input, closed.start + 1, closed.current - 1)),
                       closed)

\* a loop of _regex for which a backslash inside a character class escapes
\* nothing
RECURSIVE RegexBodyEndNoEscapeInClass(_, _, _, _)
RegexBodyEndNoEscapeInClass(in, p, inEscape, inCharacterClass) ==
    IF p >= Len(in) THEN -1
    ELSE LET ch == CharAt(in, p)
         IN IF inEscape THEN RegexBodyEndNoEscapeInClass(in, p + 1, FALSE, inCharacterClass)
            ELSE IF ch = "/" /\ ~inCharacterClass THEN p + 1
            ELSE IF ch = "[" THEN RegexBodyEndNoEscapeInClass(in, p + 1, inEscape, TRUE)
            ELSE IF ch = "\\" /\ ~inCharacterClass
            THEN RegexBodyEndNoEscapeInClass(in, p + 1, TRUE, inCharacterClass)
            ELSE IF ch = "]" THEN RegexBodyEndNoEscapeInClass(in, p + 1, inEscape, FALSE)
            ELSE RegexBodyEndNoEscapeInClass(in, p + 1, inEscape, inCharacterClass)

\* the loop of Scanner._regex from position p: the position after the closing
\* slash, or -1 when the input ends first
RECURSIVE RegexBodyEnd(_, _, _, _)
RegexBodyEnd(in, p, inEscape, inCharacterClass) ==
    IF p >= Len(in) THEN -1
    ELSE LET ch == CharAt(in, p)
         IN IF inEscape THEN RegexBodyEnd(in, p + 1, FALSE, inCharacterClass)
            ELSE IF ch = "/" /\ ~inCharacterClass THEN p + 1
            ELSE IF ch = "[" THEN RegexBodyEnd(in, p + 1, inEscape, TRUE)
            ELSE IF ch = "\\" THEN RegexBodyEnd(in, p + 1, TRUE, inCharacterClass)
            ELSE IF ch = "]" THEN RegexBodyEnd(in, p + 1, inEscape, FALSE)
            ELSE RegexBodyEnd(in, p + 1, inEscape, inCharacterClass)

\* Scanner._regex
ScannerRegex(sc) ==
    LET bodyEnd == RegexBodyEnd(sc.input, sc.current, FALSE, FALSE)
    IN IF bodyEnd = -1 THEN ScannerError(sc)
       ELSE LET hasI == bodyEnd < Len(sc.input) /\ CharAt(sc.input, bodyEnd) = "i"
                p == IF hasI THEN bodyEnd + 1 ELSE bodyEnd
                type == IF hasI THEN "RegexStrI" ELSE "RegexStr"
                done == [sc EXCEPT !.current = p]
                start == done.start + 1
                end == IF type = "RegexStrI" THEN done.current - 2 ELSE done.current - 1
            IN Scanned(Token(type, done.start + 1, Substring(done.input, start, end)), done)

\* Scanner.next
RECURSIVE ScannerNext(_)
ScannerNext(sc0) ==
    LET ate == EatWhitespace(sc0)
    IN IF IsAtEnd(ate) THEN Scanned(Token("EOF", ate.current, NoLexeme), ate)
       ELSE LET ch == CharAt(ate.input, ate.current)
                \* this._start = this._current; const ch = this._advance()
                sc == [ate EXCEPT !.start = ate.current, !.current = @ + 1]
            IN CASE ch = "(" -> ScannerToken(sc, "LParen", FALSE)
                 [] ch = ")" -> ScannerToken(sc, "RParen", FALSE)
                 [] ch = "!" ->
                      IF Matches(sc, "=")
                      THEN ScannerToken(ScannerMatch(ScannerMatch(sc, "="), "="), "NotEq", FALSE)
                      ELSE ScannerToken(sc, "Neg", FALSE)
                 [] ch = "'" -> ScannerQuotedString(sc)
                 [] ch = "/" -> ScannerRegex(sc)
                 [] ch = "=" ->
                      IF Matches(sc, "=")
                      THEN ScannerToken(ScannerMatch(ScannerMatch(sc, "="), "="), "Eq", FALSE)
                      ELSE IF Matches(sc, "~")
                      THEN ScannerToken(ScannerMatch(sc, "~"), "RegexOp", FALSE)
                      ELSE ScannerError(sc)
                 [] ch = "<" ->
                      ScannerToken(ScannerMatch(sc, "="),
                                   IF Matches(sc, "=") THEN "LtEq" ELSE "Lt", FALSE)
                 [] ch = ">" ->
                      ScannerToken(ScannerMatch(sc, "="),
                                   IF Matches(sc, "=") THEN "GtEq" ELSE "Gt", FALSE)
                 [] ch = "&" ->
                      IF Matches(sc, "&")
                      THEN ScannerToken(ScannerMatch(sc, "&"), "And", FALSE)
                      ELSE ScannerError(sc)
                 [] ch = "|" ->
                      IF Matches(sc, "|")
                      THEN ScannerToken(ScannerMatch(sc, "|"), "Or", FALSE)
                      ELSE ScannerError(sc)
                 [] ch \in {" ", "\r", "\t", "\n"} -> ScannerNext(sc)
                 [] OTHER -> ScannerString(sc)

\* [...scanner]: Scanner[Symbol.iterator] run to its end; the tokens yielded
\* and the scanner after the last of them
RECURSIVE ScanAll(_, _)
ScanAll(sc, acc) ==
    LET r == ScannerNext(sc)
    IN IF r.token.type = "EOF"
       THEN [tokens |-> Append(acc, r.token), scanner |-> r.scanner]
       ELSE ScanAll(r.scanner, Append(acc, r.token))

-----------------------------------------------------------------------------
(* Expression builder: the smart constructors of ContextKeyExpr *)

Expr(kind, key, value, ci, operands) ==
    [kind |-> kind, key |-> key, value |-> value, ci |-> ci, operands |-> operands]

\* the printable ASCII characters (but the grave accent) and the whitespace
\* controls, by code unit
Ascii ==
    <<"\t", "\n", "\f", "\r", " ", "!", "\"", "#", "$", "%", "&", "'", "(", ")", "*", "+",
      ",", "-", ".", "/", "0", "1", "2", "3", "4", "5", "6", "7", "8", "9", ":", ";",
      "<", "=", ">", "?", "@", "A", "B", "C", "D", "E", "F", "G", "H", "I", "J", "K",
      "L", "M", "N", "O", "P", "Q", "R", "S", "T", "U", "V", "W", "X", "Y", "Z", "[",
      "\\", "]", "^", "_", "a", "b", "c", "d", "e", "f", "g", "h", "i", "j", "k",
      "l", "m", "n", "o", "p", "q", "r", "s", "t", "u", "v", "w", "x", "y", "z", "{",
      "|", "}", "~">>

CharCode(ch) == CHOOSE i \in 1..Len(Ascii) : Ascii[i] = ch

\* -1, 0 or 1 as string a is before, equal to or after string b
RECURSIVE CompareStrings(_, _)
CompareStrings(a, b) ==
    IF a = <<>> /\ b = <<>> THEN 0
    ELSE IF a = <<>> THEN -1
    ELSE IF b = <<>> THEN 1
    ELSE IF Head(a) = Head(b) THEN CompareStrings(Tail(a), Tail(b))
    ELSE IF CharCode(Head(a)) < CharCode(Head(b)) THEN -1 ELSE 1

ExprKinds ==
    <<"True", "False", "Has", "Not", "Equals", "NotEquals", "Regex", "In", "NotIn",
      "Greater", "GreaterEquals", "Smaller", "SmallerEquals", "And", "Or">>

KindRank(kind) == CHOOSE i \in 1..Len(ExprKinds) : ExprKinds[i] = kind

\* the canonical comparator: by node kind, then key, then value, then the
\* operands of a Not, And or Or, one after the other
RECURSIVE CompareExprs(_, _)
RECURSIVE CompareOperands(_, _)
CompareExprs(a, b) ==
    IF a.kind # b.kind THEN (IF KindRank(a.kind) < KindRank(b.kind) THEN -1 ELSE 1)
    ELSE IF CompareStrings(a.key, b.key) # 0 THEN CompareStrings(a.key, b.key)
    ELSE IF CompareStrings(a.value, b.value) # 0 THEN CompareStrings(a.value, b.value)
    ELSE IF a.ci # b.ci THEN (IF b.ci THEN -1 ELSE 1)
    ELSE CompareOperands(a.operands, b.operands)

CompareOperands(xs, ys) ==
    IF xs = <<>> /\ ys = <<>> THEN 0
    ELSE IF xs = <<>> THEN -1
    ELSE IF ys = <<>> THEN 1
    ELSE IF CompareExprs(Head(xs), Head(ys)) # 0 THEN CompareExprs(Head(xs), Head(ys))
    ELSE CompareOperands(Tail(xs), Tail(ys))

ExprTrue == Expr("True", <<>>, <<>>, FALSE, <<>>)

ExprFalse == Expr("False", <<>>, <<>>, FALSE, <<>>)

ExprHas(key) == Expr("Has", key, <<>>, FALSE, <<>>)

\* not(not(x)) is x
ExprNot(inner) ==
    IF inner.kind = "Not" THEN inner.operands[1]
    ELSE Expr("Not", <<>>, <<>>, FALSE, <<inner>>)

\* a comparison of a key with a value: In, NotIn, Greater, GreaterEquals,
\* Smaller, SmallerEquals
ExprCompare(kind, key, value) == Expr(kind, key, value, FALSE, <<>>)

ExprEquals(key, value) ==
    IF value = <<"t", "r", "u", "e">> THEN ExprHas(key)
    ELSE IF value = <<"f", "a", "l", "s", "e">> THEN ExprNot(ExprHas(key))
    ELSE Expr("Equals", key, value, FALSE, <<>>)

ExprNotEquals(key, value) ==
    IF value = <<"t", "r", "u", "e">> THEN ExprNot(ExprHas(key))
    ELSE IF value = <<"f", "a", "l", "s", "e">> THEN ExprHas(key)
    ELSE Expr("NotEquals", key, value, FALSE, <<>>)

ExprRegex(key, pattern, ci) == Expr("Regex", key, pattern, ci, <<>>)

\* the operands of an And (Or) flattened one level: an operand of the same
\* kind is replaced by its operands
RECURSIVE Flatten(_, _)
Flatten(kind, operands) ==
    IF operands = <<>> THEN <<>>
    ELSE (IF Head(operands).kind = kind THEN Head(operands).operands
          ELSE <<Head(operands)>>) \o Flatten(kind, Tail(operands))

\* e inserted into the sorted, duplicate-free sequence xs
RECURSIVE InsertSorted(_, _)
InsertSorted(e, xs) ==
    IF xs = <<>> THEN <<e>>
    ELSE LET c == CompareExprs(e, Head(xs))
         IN IF c = 0 THEN xs
            ELSE IF c < 0 THEN <<e>> \o xs
            ELSE <<Head(xs)>> \o InsertSorted(e, Tail(xs))

\* operands sorted by the canonical comparator, duplicates dropped
RECURSIVE SortDedup(_)
SortDedup(operands) ==
    IF operands = <<>> THEN <<>>
    ELSE InsertSorted(Head(operands), SortDedup(Tail(operands)))

\* and(...) (kind "And") and or(...) (kind "Or"): the neutral constant is
\* dropped, the absorbing constant decides, the rest is flattened, sorted and
\* deduplicated; no operand left is the neutral constant, one is itself
Normalize(kind, operands) ==
    LET neutral == IF kind = "And" THEN ExprTrue ELSE ExprFalse
        absorbing == IF kind = "And" THEN ExprFalse ELSE ExprTrue
        flat == Flatten(kind, operands)
        kept == SortDedup(SelectSeq(flat, LAMBDA e : e # neutral))
    IN IF \E i \in 1..Len(flat) : flat[i] = absorbing THEN absorbing
       ELSE IF kept = <<>> THEN neutral
       ELSE IF Len(kept) = 1 THEN kept[1]
       ELSE Expr(kind, <<>>, <<>>, FALSE, kept)

ExprAnd(operands) == Normalize("And", operands)

ExprOr(operands) == Normalize("Or", operands)

\* RegExp.prototype.source: the pattern with a backslash before each slash
\* that is neither escaped nor in a character class
RECURSIVE RegExpSourceFrom(_, _, _)
RegExpSourceFrom(pattern, i, inClass) ==
    IF i >= Len(pattern) THEN <<>>
    ELSE LET ch == CharAt(pattern, i)
         IN IF ch = "\\"
            THEN Substring(pattern, i, i + 2) \o RegExpSourceFrom(pattern, i + 2, inClass)
            ELSE IF inClass
            THEN <<ch>> \o RegExpSourceFrom(pattern, i + 1, ch # "]")
            ELSE IF ch = "["
            THEN <<ch>> \o RegExpSourceFrom(pattern, i + 1, TRUE)
            ELSE IF ch = "/"
            THEN <<"\\", "/">> \o RegExpSourceFrom(pattern, i + 1, FALSE)
            ELSE <<ch>> \o RegExpSourceFrom(pattern, i + 1, FALSE)

\* the source of new RegExp('') is (?:)
RegExpSource(pattern) ==
    IF pattern = <<>> THEN <<"(", "?", ":", ")">>
    ELSE RegExpSourceFrom(pattern, 0, FALSE)

\* the strings of strs with sep between them
RECURSIVE Join(_, _)
Join(strs, sep) ==
    IF strs = <<>> THEN <<>>
    ELSE IF Len(strs) = 1 THEN strs[1]
    ELSE strs[1] \o sep \o Join(Tail(strs), sep)

\* expr.serialize(): a key as it is, ! before the negated expression, the
\* value of an equality or a membership between quotes, that of an ordering
\* comparison as it is, a regular expression between slashes with its flag,
\* and the operands of an And or Or between parentheses
RECURSIVE Serialize(_)
Serialize(expr) ==
    CASE expr.kind = "True" -> <<"t", "r", "u", "e">>
      [] expr.kind = "False" -> <<"f", "a", "l", "s", "e">>
      [] expr.kind = "Has" -> expr.key
      [] expr.kind = "Not" -> <<"!">> \o Serialize(expr.operands[1])
      [] expr.kind = "Equals" -> expr.key \o <<" ", "=", "=", " ", "'">> \o expr.value \o <<"'">>
      [] expr.kind = "NotEquals" ->
           expr.key \o <<" ", "!", "=", " ", "'">> \o expr.value \o <<"'">>
      [] expr.kind = "Regex" ->
           expr.key \o <<" ", "=", "~", " ", "/">> \o RegExpSource(expr.value) \o <<"/">>
           \o (IF expr.ci THEN <<"i">> ELSE <<>>)
      [] expr.kind = "In" -> expr.key \o <<" ", "i", "n", " ", "'">> \o expr.value \o <<"'">>
      [] expr.kind = "NotIn" ->
           expr.key \o <<" ", "n", "o", "t", " ", "i", "n", " ", "'">> \o expr.value
           \o <<"'">>
      [] expr.kind = "Greater" -> expr.key \o <<" ", ">", " ">> \o expr.value
      [] expr.kind = "GreaterEquals" -> expr.key \o <<" ", ">", "=", " ">> \o expr.value
      [] expr.kind = "Smaller" -> expr.key \o <<" ", "<", " ">> \o expr.value
      [] expr.kind = "SmallerEquals" -> expr.key \o <<" ", "<", "=", " ">> \o expr.value
      [] expr.kind = "And" ->
           <<"(">>
           \o Join([i \in 1..Len(expr.operands) |-> Serialize(expr.operands[i])],
                   <<" ", "&", "&", " ">>)
           \o <<")">>
      [] expr.kind = "Or" ->
           <<"(">>
           \o Join([i \in 1..Len(expr.operands) |-> Serialize(expr.operands[i])],
                   <<" ", "|", "|", " ">>)
           \o <<")">>

-----------------------------------------------------------------------------
(* new RegExp(pattern, flags) *)

\* whether the pattern from position i (0-based) on is no regular expression
\* of JavaScript, for patterns of letters, digits, blanks, parentheses,
\* brackets, backslashes, the quantifiers * + ?, the assertions ^ $, the bar
\* and other punctuation without a meaning in a pattern
\* depth: open groups; canRepeat: a quantifier may follow
RECURSIVE RegExpInvalidFrom(_, _, _, _, _)
RegExpInvalidFrom(pattern, i, depth, inClass, canRepeat) ==
    IF i >= Len(pattern) THEN inClass \/ depth > 0
    ELSE LET ch == CharAt(pattern, i)
         IN IF inClass
            THEN (IF ch = "\\" THEN RegExpInvalidFrom(pattern, i + 2, depth, TRUE, FALSE)
                  ELSE IF ch = "]" THEN RegExpInvalidFrom(pattern, i + 1, depth, FALSE, TRUE)
                  ELSE RegExpInvalidFrom(pattern, i + 1, depth, TRUE, FALSE))
            ELSE CASE ch = "\\" ->
                        i + 1 >= Len(pattern)
                        \/ RegExpInvalidFrom(pattern, i + 2, depth, FALSE, TRUE)
                   [] ch = "[" -> RegExpInvalidFrom(pattern, i + 1, depth, TRUE, FALSE)
                   [] ch = "(" ->
                        IF i + 1 < Len(pattern) /\ CharAt(pattern, i + 1) = "?"
                        THEN (IF i + 2 < Len(pattern) /\ CharAt(pattern, i + 2) \in {":", "=", "!"}
                              THEN RegExpInvalidFrom(pattern, i + 3, depth + 1, FALSE, FALSE)
                              ELSE TRUE)
                        ELSE RegExpInvalidFrom(pattern, i + 1, depth + 1, FALSE, FALSE)
                   [] ch = ")" ->
                        depth = 0
                        \/ RegExpInvalidFrom(pattern, i + 1, depth - 1, FALSE, TRUE)
                   [] ch \in {"*", "+", "?"} ->
                        ~canRepeat
                        \/ (IF i + 1 < Len(pattern) /\ CharAt(pattern, i + 1) = "?"
                            THEN RegExpInvalidFrom(pattern, i + 2, depth, FALSE, FALSE)
                            ELSE RegExpInvalidFrom(pattern, i + 1, depth, FALSE, FALSE))
                   [] ch \in {"|", "^", "$"} ->
                        RegExpInvalidFrom(pattern, i + 1, depth, FALSE, FALSE)
                   [] OTHER -> RegExpInvalidFrom(pattern, i + 1, depth, FALSE, TRUE)

\* new RegExp(pattern, flags) throws a SyntaxError (flags is "" or "i")
RegExpThrows(pattern) == RegExpInvalidFrom(pattern, 0, 0, FALSE, FALSE)

-----------------------------------------------------------------------------
(* Parser *)

\* parse returned undefined
Undefined == Expr("undefined", <<>>, <<>>, FALSE, <<>>)

\* parse has not been called yet
NotCalled == Expr("none", <<>>, <<>>, FALSE, <<>>)

ParsingError(token, message) == [token |-> token, message |-> message]

\* Parser._peek
ParserPeek(tokens, cur) == tokens[cur + 1]

\* Parser._previous
ParserPrevious(tokens, cur) == tokens[cur]

\* Parser._isAtEnd
ParserIsAtEnd(tokens, cur) == ParserPeek(tokens, cur).type = "EOF"

\* Parser._check
ParserCheck(tokens, cur, type) ==
    ~ParserIsAtEnd(tokens, cur) /\ ParserPeek(tokens, cur).type = type

\* Parser._advance: the cursor after the call
ParserAdvance(tokens, cur) == IF ~ParserIsAtEnd(tokens, cur) THEN cur + 1 ELSE cur

\* Parser._match(...types): whether it returns true
ParserMatches(tokens, cur, types) == \E type \in types : ParserCheck(tokens, cur, type)

\* Parser._match(...types): the cursor after the call
ParserMatch(tokens, cur, types) ==
    IF ParserMatches(tokens, cur, types) THEN ParserAdvance(tokens, cur) ELSE cur

\* how a production ends: it returns expr ("ok"), or throws a ParseError
\* ("ParseError") or another Error with a message ("Error"); cur and errs
\* are Parser._current and Parser._parsingErrors at that moment
Returned(expr, cur, errs) ==
    [status |-> "ok", expr |-> expr, cur |-> cur, errs |-> errs, message |-> ""]

Thrown(status, cur, errs, message) ==
    [status |-> status, expr |-> Undefined, cur |-> cur, errs |-> errs, message |-> message]

\* an _error that moves the cursor past the token it records, as the
\* scanner's _error does
ThrowErrorAdvancing(tokens, cur, errs, message) ==
    Thrown("ParseError", cur + 1,
           Append(errs, ParsingError(ParserPeek(tokens, cur), message)), "")

\* throw this._error(this._peek(), message)
ThrowError(tokens, cur, errs, message) ==
    Thrown("ParseError", cur, Append(errs, ParsingError(ParserPeek(tokens, cur), message)), "")

\* a _consume that advances whatever the type of the token is
ParserConsumeAny(tokens, r, type, message) ==
    Returned(r.expr, ParserAdvance(tokens, r.cur), r.errs)

\* Parser._consume(type, message), which returns r.expr on success
ParserConsume(tokens, r, type, message) ==
    IF ParserCheck(tokens, r.cur, type)
    THEN Returned(r.expr, ParserAdvance(tokens, r.cur), r.errs)
    ELSE ThrowError(tokens, r.cur, r.errs, message)

\* a _value that does not take the keyword in for a value
\* a _value that takes no quoted string
ParserValueUnquoted(tokens, cur) ==
    IF ParserMatches(tokens, cur, {"Str"})
    THEN [value |-> ParserPrevious(tokens, cur + 1).lexeme, cur |-> cur + 1]
    ELSE IF ParserMatches(tokens, cur, {"True"})
    THEN [value |-> <<"t", "r", "u", "e">>, cur |-> cur + 1]
    ELSE IF ParserMatches(tokens, cur, {"False"})
    THEN [value |-> <<"f", "a", "l", "s", "e">>, cur |-> cur + 1]
    ELSE IF ParserMatches(tokens, cur, {"In"})
    THEN [value |-> <<"i", "n">>, cur |-> cur + 1]
    ELSE [value |-> <<>>, cur |-> cur]

ParserValueNoIn(tokens, cur) ==
    IF ParserMatches(tokens, cur, {"Str", "QuotedStr"})
    THEN [value |-> ParserPrevious(tokens, cur + 1).lexeme, cur |-> cur + 1]
    ELSE IF ParserMatches(tokens, cur, {"True"})
    THEN [value |-> <<"t", "r", "u", "e">>, cur |-> cur + 1]
    ELSE IF ParserMatches(tokens, cur, {"False"})
    THEN [value |-> <<"f", "a", "l", "s", "e">>, cur |-> cur + 1]
    ELSE [value |-> <<>>, cur |-> cur]

\* Parser._value: the string returned and the cursor after the call
ParserValue(tokens, cur) ==
    IF ParserMatches(tokens, cur, {"Str", "QuotedStr"})
    THEN [value |-> ParserPrevious(tokens, cur + 1).lexeme, cur |-> cur + 1]
    ELSE IF ParserMatches(tokens, cur, {"True"})
    THEN [value |-> <<"t", "r", "u", "e">>, cur |-> cur + 1]
    ELSE IF ParserMatches(tokens, cur, {"False"})
    THEN [value |-> <<"f", "a", "l", "s", "e">>, cur |-> cur + 1]
    ELSE IF ParserMatches(tokens, cur, {"In"})
    THEN [value |-> <<"i", "n">>, cur |-> cur + 1]
    ELSE [value |-> <<>>, cur |-> cur]

\* s.indexOf('/') and s.lastIndexOf('/'), -1 when s holds no slash
IndexOfSlash(s) ==
    IF \E i \in 1..Len(s) : s[i] = "/"
    THEN (CHOOSE i \in 1..Len(s) : s[i] = "/" /\ \A j \in 1..(i - 1) : s[j] # "/") - 1
    ELSE -1

LastIndexOfSlash(s) ==
    IF \E i \in 1..Len(s) : s[i] = "/"
    THEN (CHOOSE i \in 1..Len(s) : s[i] = "/" /\ \A j \in (i + 1)..Len(s) : s[j] # "/") - 1
    ELSE -1

\* s.slice(from, to) of JavaScript for from >= 0: a negative to counts from
\* the end of s
Slice(s, from, to) ==
    LET end == IF to < 0 THEN Max(Len(s) + to, 0) ELSE Min(to, Len(s))
    IN SubSeq(s, Min(from, Len(s)) + 1, end)

\* a quoted regex whose flag is looked for at the end of the string
QuotedRegexFlagAtEnd(serializedValue) ==
    LET start == IndexOfSlash(serializedValue)
        end == LastIndexOfSlash(serializedValue)
        value == Slice(serializedValue, start + 1, end)
        caseIgnoreFlag == Len(serializedValue) > 0
                          /\ CharAt(serializedValue, Len(serializedValue) - 1) = "i"
    IN IF RegExpThrows(value)
       THEN [pattern |-> <<"i", "n", "v", "a", "l", "i", "d">>, ci |-> FALSE]
       ELSE [pattern |-> value, ci |-> caseIgnoreFlag]

\* the regular expression Parser._primary builds from the quoted string after
\* KEY =~ (strict is false): the first assignment of /invalid/ is overwritten
\* by new RegExp(value, caseIgnoreFlag) unless that throws
QuotedRegex(serializedValue) ==
    LET start == IndexOfSlash(serializedValue)
        end == LastIndexOfSlash(serializedValue)
        value == Slice(serializedValue, start + 1, end)
        caseIgnoreFlag == end + 1 < Len(serializedValue)
                          /\ CharAt(serializedValue, end + 1) = "i"
    IN IF RegExpThrows(value)
       THEN [pattern |-> <<"i", "n", "v", "a", "l", "i", "d">>, ci |-> FALSE]
       ELSE [pattern |-> value, ci |-> caseIgnoreFlag]

\* the part of Parser._primary after KEY '=~'
PrimaryRegex(tokens, cur, errs, key) ==
    IF ParserMatches(tokens, cur, {"RegexStr", "RegexStrI"})
    THEN LET regex == ParserPrevious(tokens, cur + 1)
         IN IF RegExpThrows(regex.lexeme)
            THEN Thrown("Error", cur + 1, errs, "Invalid regular expression")
            ELSE Returned(ExprRegex(key, regex.lexeme, regex.type = "RegexStrI"),
                          cur + 1, errs)
    ELSE IF ParserMatches(tokens, cur, {"QuotedStr"})
    THEN LET regex == QuotedRegex(ParserPrevious(tokens, cur + 1).lexeme)
         IN Returned(ExprRegex(key, regex.pattern, regex.ci), cur + 1, errs)
    ELSE ThrowError(tokens, cur, errs, "Expected regex string but got")

\* a comparison whose '!=' is read as '=='
PrimaryCompareAsEq(tokens, cur, errs, key, op) ==
    IF op \in {"Eq", "NotEq"}
    THEN Returned(IF ParserValue(tokens, cur).value = <<"t", "r", "u", "e">>
                  THEN ExprHas(key)
                  ELSE IF ParserValue(tokens, cur).value = <<"f", "a", "l", "s", "e">>
                  THEN ExprNot(ExprHas(key))
                  ELSE ExprEquals(key, ParserValue(tokens, cur).value),
                  ParserValue(tokens, cur).cur, errs)
    ELSE Thrown("Error", ParserValue(tokens, cur).cur, errs, "must've matched the op")

\* the part of Parser._primary after KEY and an operator op
PrimaryCompare(tokens, cur, errs, key, op) ==
    LET v == ParserValue(tokens, cur)
        right == ParserValue(tokens, cur).value
    IN CASE op = "Eq" ->
              Returned(IF right = <<"t", "r", "u", "e">> THEN ExprHas(key)
                       ELSE IF right = <<"f", "a", "l", "s", "e">> THEN ExprNot(ExprHas(key))
                       ELSE ExprEquals(key, right),
                       v.cur, errs)
         [] op = "NotEq" ->
              Returned(IF right = <<"t", "r", "u", "e">> THEN ExprNot(ExprHas(key))
                       ELSE IF right = <<"f", "a", "l", "s", "e">> THEN ExprHas(key)
                       ELSE ExprNotEquals(key, right),
                       v.cur, errs)
         [] op = "Lt" -> Returned(ExprCompare("Smaller", key, right), v.cur, errs)
         [] op = "LtEq" -> Returned(ExprCompare("SmallerEquals", key, right), v.cur, errs)
         [] op = "Gt" -> Returned(ExprCompare("Greater", key, right), v.cur, errs)
         [] op = "GtEq" -> Returned(ExprCompare("GreaterEquals", key, right), v.cur, errs)
         [] op = "In" -> Returned(ExprCompare("In", key, right), v.cur, errs)
         [] OTHER -> Thrown("Error", v.cur, errs, "must've matched the op")

RECURSIVE ParserExpr(_, _, _)
RECURSIVE ParserOr(_, _, _, _)
RECURSIVE ParserAnd(_, _, _, _)
RECURSIVE ParserTerm(_, _, _)
RECURSIVE ParserPrimary(_, _, _)

\* Parser._primary after '(' and the call of _expr that ended as r
PrimaryParen(tokens, r) ==
    IF r.status # "ok" THEN r
    ELSE ParserConsume(tokens, r, "RParen", "Expected ')'")

\* Parser._primary after KEY 'not' and the call of _consume that ended as c
PrimaryNotIn(tokens, c, errs, key) ==
    IF c.status # "ok" THEN c
    ELSE Returned(ExprCompare("NotIn", key, ParserValue(tokens, c.cur).value),
                  ParserValue(tokens, c.cur).cur, errs)

\* Parser._primary after KEY, with the cursor after it
\* a _primary whose bare KEY also takes the token that follows it
PrimaryKeyGreedy(tokens, after, errs, key) ==
    IF ParserMatches(tokens, after, {"RegexOp"})
    THEN PrimaryRegex(tokens, after + 1, errs, key)
    ELSE IF ParserMatches(tokens, after, {"Not"})
    THEN PrimaryNotIn(tokens,
                      ParserConsume(tokens, Returned(Undefined, after + 1, errs), "In",
                                    "Expected \"in\" after \"not\""),
                      errs, key)
    ELSE IF ParserMatches(tokens, after, {"Eq", "NotEq", "Lt", "LtEq", "Gt", "GtEq", "In"})
    THEN PrimaryCompare(tokens, after + 1, errs, key, ParserPrevious(tokens, after + 1).type)
    ELSE Returned(ExprHas(key), ParserAdvance(tokens, after), errs)

PrimaryKey(tokens, after, errs, key) ==
    IF ParserMatches(tokens, after, {"RegexOp"})
    THEN PrimaryRegex(tokens, after + 1, errs, key)
    ELSE IF ParserMatches(tokens, after, {"Not"})
    THEN PrimaryNotIn(tokens,
                      ParserConsume(tokens, Returned(Undefined, after + 1, errs), "In",
                                    "Expected \"in\" after \"not\""),
                      errs, key)
    ELSE IF ParserMatches(tokens, after, {"Eq", "NotEq", "Lt", "LtEq", "Gt", "GtEq", "In"})
    THEN PrimaryCompare(tokens, after + 1, errs, key, ParserPrevious(tokens, after + 1).type)
    ELSE Returned(ExprHas(key), after, errs)

\* Parser._primary
ParserPrimary(tokens, cur, errs) ==
    IF ParserMatches(tokens, cur, {"True"}) THEN Returned(ExprTrue, cur + 1, errs)
    ELSE IF ParserMatches(tokens, cur, {"False"}) THEN Returned(ExprFalse, cur + 1, errs)
    ELSE IF ParserMatches(tokens, cur, {"LParen"})
    THEN PrimaryParen(tokens, ParserExpr(tokens, cur + 1, errs))
    ELSE IF ParserMatches(tokens, cur, {"Str"})
    THEN PrimaryKey(tokens, cur + 1, errs, ParserPrevious(tokens, cur + 1).lexeme)
    ELSE ThrowError(tokens, cur, errs, "Expected 'true', 'false', '(', KEY, ... but got")

\* a _term that returns the term after '!' as it is
TermNotDropped(r) == r

\* Parser._term after '!' and the call of _term that ended as r
TermNot(r) ==
    IF r.status # "ok" THEN r
    ELSE Returned(ExprNot(r.expr), r.cur, r.errs)

\* a _term whose '!' is followed by a primary
ParserTermOnce(tokens, cur, errs) ==
    IF ParserMatches(tokens, cur, {"Neg"})
    THEN TermNot(ParserPrimary(tokens, cur + 1, errs))
    ELSE ParserPrimary(tokens, cur, errs)

\* a _term whose '!' negates the whole conjunction after it
ParserTermLoose(tokens, cur, errs) ==
    IF ParserMatches(tokens, cur, {"Neg"})
    THEN TermNot(ParserAnd(tokens, cur + 1, errs, <<>>))
    ELSE ParserPrimary(tokens, cur, errs)

\* Parser._term
ParserTerm(tokens, cur, errs) ==
    IF ParserMatches(tokens, cur, {"Neg"})
    THEN TermNot(ParserTerm(tokens, cur + 1, errs))
    ELSE ParserPrimary(tokens, cur, errs)

\* an _and or _or that makes the node of its array itself
CombinedAsGiven(kind, expr) ==
    IF Len(expr) = 1 THEN expr[1]
    ELSE Expr(kind, <<>>, <<>>, FALSE, expr)

\* what _and (kind "And") or _or (kind "Or") returns for its array expr
Combined(kind, expr) ==
    IF Len(expr) = 1 THEN expr[1]
    ELSE IF kind = "And" THEN ExprAnd(expr) ELSE ExprOr(expr)

\* Parser._and after the call of _term that ended as term; operands are the
\* elements of the array expr before it
AndRest(tokens, term, operands) ==
    IF term.status # "ok" THEN term
    ELSE IF ParserMatches(tokens, term.cur, {"And"})
    THEN ParserAnd(tokens, term.cur + 1, term.errs, Append(operands, term.expr))
    ELSE Returned(Combined("And", Append(operands, term.expr)), term.cur, term.errs)

\* Parser._and, from the call of _term that yields the next element of the
\* array expr, whose elements so far are operands
ParserAnd(tokens, cur, errs, operands) ==
    AndRest(tokens, ParserTerm(tokens, cur, errs), operands)

\* an _or that combines its operands as _and does
OrRestAsAnd(tokens, and, operands) ==
    IF and.status # "ok" THEN and
    ELSE IF ParserMatches(tokens, and.cur, {"Or"})
    THEN ParserOr(tokens, and.cur + 1, and.errs, Append(operands, and.expr))
    ELSE Returned(Combined("And", Append(operands, and.expr)), and.cur, and.errs)

\* Parser._or after the call of _and that ended as and; operands are the
\* elements of the array expr before it
OrRest(tokens, and, operands) ==
    IF and.status # "ok" THEN and
    ELSE IF ParserMatches(tokens, and.cur, {"Or"})
    THEN ParserOr(tokens, and.cur + 1, and.errs, Append(operands, and.expr))
    ELSE Returned(Combined("Or", Append(operands, and.expr)), and.cur, and.errs)

\* Parser._or, from the call of _and that yields the next element of the
\* array expr, whose elements so far are operands
ParserOr(tokens, cur, errs, operands) ==
    OrRest(tokens, ParserAnd(tokens, cur, errs, <<>>), operands)

\* Parser._expr
ParserExpr(tokens, cur, errs) == ParserOr(tokens, cur, errs, <<>>)

\* a try block that returns the expression whether or not a token is left
TryAtEndUnchecked(tokens, r) == r

\* the try block of Parser.parse after the call of _expr that ended as r:
\* a token left over is an error
TryAtEnd(tokens, r) ==
    IF r.status = "ok" /\ ~ParserIsAtEnd(tokens, r.cur)
    THEN ThrowError(tokens, r.cur, r.errs, "Unexpected token")
    ELSE r

\* a catch clause that records nothing for an error that is no ParseError
TryCatchSilent(tokens, e) ==
    IF e.status = "ok" THEN e
    ELSE Thrown("caught", e.cur, e.errs, "")

\* a catch clause that records every error, a ParseError too
TryCatchAlwaysPush(tokens, e) ==
    IF e.status = "ok" THEN e
    ELSE Thrown("caught", e.cur,
                Append(e.errs, ParsingError(ParserPeek(tokens, e.cur), e.message)), "")

\* a catch clause that handles a ParseError only and lets any other exception
\* leave parse
TryCatchParseErrorOnly(tokens, e) ==
    IF e.status = "ok" THEN e
    ELSE IF e.status = "ParseError" THEN Thrown("caught", e.cur, e.errs, "")
    ELSE e

\* the catch clause of Parser.parse for a try block that ended as e
TryCatch(tokens, e) ==
    IF e.status = "ok" THEN e
    ELSE IF e.status = "ParseError" THEN Thrown("caught", e.cur, e.errs, "")
    ELSE Thrown("caught", e.cur,
                Append(e.errs, ParsingError(ParserPeek(tokens, e.cur), e.message)), "")

\* the try statement of Parser.parse: the value returned and the parser's
\* cursor and parsing errors after it
ParserTry(tokens) ==
    TryCatch(tokens, TryAtEnd(tokens, ParserExpr(tokens, 0, <<>>)))

\* a Parser instance's fields (the scanner's among them) and the value its
\* last parse call returned
ParserState(sc, tokens, cur, errs, res) ==
    [scanner |-> sc, tokens |-> tokens, current |-> cur, parsingErrors |-> errs,
     result |-> res]

\* new Parser()
ParserNew == ParserState(ScannerState(<<>>, 0, 0, <<>>), <<>>, 0, <<>>, NotCalled)

\* Parser.parse after the try statement ended as r
ParseTried(scan, r) == ParserState(scan.scanner, scan.tokens, r.cur, r.errs, r.expr)

\* a parse that resets the cursor and the parsing errors before it looks at
\* the scanner's error tokens
ParseScannedResetFirst(p, scan) ==
    IF Len(scan.scanner.errorTokens) > 0
    THEN [p EXCEPT !.scanner = scan.scanner, !.tokens = scan.tokens, !.current = 0,
                   !.parsingErrors = <<>>, !.result = Undefined]
    ELSE ParseTried(scan, ParserTry(scan.tokens))

\* Parser.parse after [...this._scanner] yielded scan
ParseScanned(p, scan) ==
    IF Len(scan.scanner.errorTokens) > 0
    THEN [p EXCEPT !.scanner = scan.scanner, !.tokens = scan.tokens, !.result = Undefined]
    ELSE ParseTried(scan, ParserTry(scan.tokens))

\* a parse that takes an input of whitespace for an empty one
ParserParseTrimmed(p, input) ==
    IF \A i \in 1..Len(input) : IsWhitespace(input[i]) THEN [p EXCEPT !.result = Undefined]
    ELSE ParseScanned(p, ScanAll(ScannerReset(input), <<>>))

\* Parser.parse(input) called on a parser with the fields p: the fields after
\* the call
ParserParse(p, input) ==
    IF input = <<>> THEN [p EXCEPT !.result = Undefined]
    ELSE ParseScanned(p, ScanAll(ScannerReset(input), <<>>))

\* Parser.lexingErrors
LexingErrors(p) == p.scanner.errorTokens

-----------------------------------------------------------------------------
(* Inputs *)

\* all concatenations of at most n words of vocab
RECURSIVE Phrases(_, _)
Phrases(vocab, n) ==
    IF n = 0 THEN {<<>>}
    ELSE LET shorter == Phrases(vocab, n - 1)
         IN shorter \cup {p \o w : p \in shorter, w \in vocab}

ScanVocab ==
    {<<"a">>, <<" ">>, <<"\t">>, <<"=">>, <<"~">>, <<"&">>, <<"|">>, <<"!">>, <<"'">>,
     <<"/">>, <<"(">>, <<"<">>, <<">">>}

ScanInputs == Phrases(ScanVocab, MaxScanWords)

IdentifierVocab ==
    {<<"a">>, <<"2">>, <<"<">>, <<">">>, <<" ">>, <<"=">>,
     <<"a", "<", "C", "-", "r", ">">>, <<" ", "<", " ">>}

IdentifierInputs == Phrases(IdentifierVocab, MaxIdentifierWords)

RescanVocab == {<<"a">>, <<" ">>, <<"=">>, <<"'">>}

RescanInputs == Phrases(RescanVocab, MaxRescanWords)

RegexVocab == {<<"/">>, <<"\\">>, <<"[">>, <<"]">>, <<"i">>, <<"a">>}

RegexInputs == Phrases(RegexVocab, MaxRegexWords)

KeywordVocab ==
    {<<"i", "n">>, <<"n", "o", "t">>, <<"t", "r", "u", "e">>, <<"f", "a", "l", "s", "e">>,
     <<"I", "n">>, <<"T", "R", "U", "E">>, <<"a">>, <<" ">>, <<"(">>, <<"=">>}

KeywordInputs == Phrases(KeywordVocab, MaxKeywordWords)

ParseVocab ==
    {<<"a">>, <<" ">>, <<"(">>, <<")">>, <<"!">>, <<"=">>, <<"&", "&">>, <<"=", "~">>,
     <<"n", "o", "t">>, <<"/", "(", "/">>}

ParseInputs == Phrases(ParseVocab, MaxParseWords)

PrecedenceVocab ==
    {<<"a">>, <<"b">>, <<"c">>, <<"!">>, <<"&", "&">>, <<"|", "|">>, <<"(">>, <<")">>,
     <<"(", "a", "|", "|", "b", ")">>, <<"&", "&", "c">>}

PrecedenceInputs == Phrases(PrecedenceVocab, MaxPrecedenceWords)

CompareVocab ==
    {<<"a">>, <<" ", "=", "=", " ">>, <<" ", "!", "=", " ">>, <<" ", "<", " ">>,
     <<" ", "<", "=", " ">>, <<" ", ">", " ">>, <<" ", ">", "=", " ">>,
     <<" ", "i", "n", " ">>, <<" ", "n", "o", "t", " ", "i", "n", " ">>,
     <<" ", "n", "o", "t", " ">>,
     <<"t", "r", "u", "e">>, <<"f", "a", "l", "s", "e">>,
     <<"'", "t", "r", "u", "e", "'">>, <<"'", "f", "a", "l", "s", "e", "'">>,
     <<"'", "b", "'">>, <<"(", "a">>, <<")">>, <<"!">>}

CompareInputs == Phrases(CompareVocab, MaxCompareWords)

MatchVocab == {<<"/">>, <<"b">>, <<"i">>, <<"(">>}

\* a =~ followed by a phrase of MatchVocab, bare or between quotes, or by
\* another token
MatchInputs ==
    {<<"a", " ", "=", "~", " ">> \o rhs : rhs \in Phrases(MatchVocab, MaxMatchWords)}
    \cup {<<"a", " ", "=", "~", " ", "'">> \o rhs \o <<"'">> :
              rhs \in Phrases(MatchVocab, MaxMatchWords)}
    \cup {<<"a", " ", "=", "~", " ">> \o rhs :
              rhs \in {<<"=", "=">>, <<"t", "r", "u", "e">>, <<"!">>, <<")">>, <<"=", "~">>,
                       <<"i", "n">>, <<"'">>, <<"<">>}}

NormalVocab ==
    {<<"a">>, <<"b">>, <<"!">>, <<"&", "&">>, <<"|", "|">>,
     <<"(", "b", "&", "&", "c", ")">>,
     <<"(", "b", "&", "&", "a", ")">>,
     <<"(", "a", "|", "|", "b", ")">>, <<"!", "(">>, <<")">>}

NormalInputs == Phrases(NormalVocab, MaxNormalWords)

ReparseVocab == {<<"a">>, <<"=">>, <<")">>}

ReparseInputs == Phrases(ReparseVocab, MaxReparseWords)

-----------------------------------------------------------------------------
(* Scanner.reportError *)

\* reportError has not been called yet
NotReported == [token |-> Token("EOF", 0, NoLexeme), outcome |-> [kind |-> "none"]]

\* throw illegalArgument(...)
IllegalArgument == [kind |-> "throws"]

\* the template `Unexpected token '${token.lexeme}' at offset ${token.offset}`
\* followed by hint; a lexeme that is undefined is rendered as undefined
Message(token, hint) ==
    [kind |-> "message", text |-> "Unexpected token", lexeme |-> token.lexeme,
     offset |-> token.offset, hint |-> hint]

\* lexeme is truthy: neither undefined nor the empty string
Truthy(lexeme) == lexeme # NoLexeme /\ lexeme # <<>>

\* a reportError that renders every token, whatever its type
ReportErrorAnyToken(token) ==
    CASE token.lexeme = <<"=">> -> Message(token, "Did you mean '==' or '=~'?")
      [] token.lexeme = <<"&">> -> Message(token, "Did you mean '&&'?")
      [] token.lexeme = <<"|">> -> Message(token, "Did you mean '||'?")
      [] OTHER -> Message(token, "")

\* Scanner.reportError(token)
ReportError(token) ==
    IF token.type # "Error" THEN IllegalArgument
    ELSE CASE token.lexeme = <<"=">> -> Message(token, "Did you mean '==' or '=~'?")
           [] token.lexeme = <<"&">> -> Message(token, "Did you mean '&&'?")
           [] token.lexeme = <<"|">> -> Message(token, "Did you mean '||'?")
           [] OTHER ->
                LET lexeme == token.lexeme
                IN IF Truthy(lexeme) /\ Len(lexeme) > 1 /\ Head(lexeme) = "'"
                   THEN Message(token, "Did you forget to close the string?")
                   ELSE IF Truthy(lexeme) /\ Len(lexeme) > 1 /\ lexeme[Len(lexeme)] = "'"
                   THEN Message(token, "Did you forget to open the string?")
                   ELSE Message(token, "")

InitReport == reported = NotReported

-----------------------------------------------------------------------------
(* The scanner driven by its iterator: reset, then next() until EOF *)

\* new Parser(), not yet called
InitParser ==
    /\ p_tokens = <<>>
    /\ p_current = 0
    /\ p_parsingErrors = <<>>
    /\ result = NotCalled
    /\ parseArg = <<>>

\* new Scanner().reset(value), and the iterator is started
InitScan ==
    /\ \E value \in ScanInputs :
          LET sc == ScannerReset(value)
          IN /\ s_input = sc.input
             /\ s_start = sc.start
             /\ s_current = sc.current
             /\ s_errorTokens = sc.errorTokens
    /\ emitted = <<>>
    /\ scanDone = FALSE
    /\ prevErrorCount = -1
    /\ InitParser
    /\ InitReport

\* a reset that leaves _errorTokens as it is
ResetKeepErrors(value) ==
    /\ scanDone
    /\ LET sc == ScannerReset(value)
       IN /\ s_input' = sc.input
          /\ s_start' = sc.start
          /\ s_current' = sc.current
          /\ UNCHANGED s_errorTokens
    /\ emitted' = <<>>
    /\ scanDone' = FALSE
    /\ prevErrorCount' = Len(s_errorTokens)
    /\ UNCHANGED <<parserVars, reportVars>>

\* scanner.reset(value) after a finished scan, and the iterator is started
Reset(value) ==
    /\ scanDone
    /\ LET sc == ScannerReset(value)
       IN /\ s_input' = sc.input
          /\ s_start' = sc.start
          /\ s_current' = sc.current
          /\ s_errorTokens' = sc.errorTokens
    /\ emitted' = <<>>
    /\ scanDone' = FALSE
    /\ prevErrorCount' = Len(s_errorTokens)
    /\ UNCHANGED <<parserVars, reportVars>>

\* one round of the iterator's loop: const token = this.next(); yield token
IterateNext ==
    /\ ~scanDone
    /\ LET r == ScannerNext(ScannerState(s_input, s_start, s_current, s_errorTokens))
       IN /\ s_start' = r.scanner.start
          /\ s_current' = r.scanner.current
          /\ s_errorTokens' = r.scanner.errorTokens
          /\ emitted' = Append(emitted, r.token)
          /\ scanDone' = (r.token.type = "EOF")
    /\ UNCHANGED <<s_input, prevErrorCount, parserVars, reportVars>>

\* new Scanner().reset(value) for an input of slashes, backslashes, brackets
\* and letters
InitRegex ==
    /\ \E value \in RegexInputs :
          LET sc == ScannerReset(value)
          IN /\ s_input = sc.input
             /\ s_start = sc.start
             /\ s_current = sc.current
             /\ s_errorTokens = sc.errorTokens
    /\ emitted = <<>>
    /\ scanDone = FALSE
    /\ prevErrorCount = -1
    /\ InitParser
    /\ InitReport

\* new Scanner().reset(value) for an input of keywords and what may surround
\* them
InitKeywords ==
    /\ \E value \in KeywordInputs :
          LET sc == ScannerReset(value)
          IN /\ s_input = sc.input
             /\ s_start = sc.start
             /\ s_current = sc.current
             /\ s_errorTokens = sc.errorTokens
    /\ emitted = <<>>
    /\ scanDone = FALSE
    /\ prevErrorCount = -1
    /\ InitParser
    /\ InitReport

\* new Scanner().reset(value) for an input of identifiers, angle brackets
\* and what may separate them
InitIdentifiers ==
    /\ \E value \in IdentifierInputs :
          LET sc == ScannerReset(value)
          IN /\ s_input = sc.input
             /\ s_start = sc.start
             /\ s_current = sc.current
             /\ s_errorTokens = sc.errorTokens
    /\ emitted = <<>>
    /\ scanDone = FALSE
    /\ prevErrorCount = -1
    /\ InitParser
    /\ InitReport

NextScan ==
    \/ \E value \in RescanInputs : Reset(value)
    \/ IterateNext

SpecScan == InitScan /\ [][NextScan]_vars

SpecRegex == InitRegex /\ [][NextScan]_vars

SpecKeywords == InitKeywords /\ [][NextScan]_vars

SpecIdentifiers == InitIdentifiers /\ [][NextScan]_vars

-----------------------------------------------------------------------------
(* Calls of the static Scanner.reportError *)

ReportVocab == {<<"=">>, <<"&">>, <<"|">>, <<"'">>, <<"a">>}

\* the tokens reportError is called with: of any type, with or without lexeme
ReportTokens ==
    {Token(type, offset, lexeme) :
        type \in TokenType, offset \in 0..MaxReportOffset,
        lexeme \in {NoLexeme} \cup Phrases(ReportVocab, MaxReportLexeme)}

\* Scanner.reportError(token) is called: it throws or returns a message
Report(token) ==
    /\ reported' = [token |-> token, outcome |-> ReportError(token)]
    /\ UNCHANGED <<scannerVars, emitted, scanDone, prevErrorCount, parserVars>>

\* the tokens of the calls after the first
ReportTokensLater ==
    {Token(type, 0, lexeme) : type \in {"Error", "Str"}, lexeme \in {NoLexeme, <<"=">>}}

\* the first call is given any of ReportTokens, a later one any of
\* ReportTokensLater
NextReport ==
    \E token \in (IF reported = NotReported THEN ReportTokens ELSE ReportTokensLater) :
        Report(token)

-----------------------------------------------------------------------------
(* A Parser instance and the calls of parse made on it *)

\* new Parser()
Init ==
    /\ s_input = ParserNew.scanner.input
    /\ s_start = ParserNew.scanner.start
    /\ s_current = ParserNew.scanner.current
    /\ s_errorTokens = ParserNew.scanner.errorTokens
    /\ emitted = <<>>
    /\ scanDone = TRUE
    /\ prevErrorCount = -1
    /\ InitParser
    /\ InitReport

\* the parser's fields in the current state
ThisParser ==
    ParserState(ScannerState(s_input, s_start, s_current, s_errorTokens),
                p_tokens, p_current, p_parsingErrors, result)

\* parser.parse(input)
Parse(input) ==
    /\ LET p == ParserParse(ThisParser, input)
       IN /\ s_input' = p.scanner.input
          /\ s_start' = p.scanner.start
          /\ s_current' = p.scanner.current
          /\ s_errorTokens' = p.scanner.errorTokens
          /\ p_tokens' = p.tokens
          /\ p_current' = p.current
          /\ p_parsingErrors' = p.parsingErrors
          /\ result' = p.result
    /\ parseArg' = input
    /\ UNCHANGED <<emitted, scanDone, prevErrorCount, reportVars>>

\* the first call is given any of ParseInputs, a later one any of ReparseInputs
Next == \E input \in (IF result = NotCalled THEN ParseInputs ELSE ReparseInputs) : Parse(input)

Spec == Init /\ [][Next]_vars

SpecReport == Init /\ [][NextReport]_vars

\* one call of parse on a new parser, given any of PrecedenceInputs
NextPrecedence ==
    \E input \in (IF result = NotCalled THEN PrecedenceInputs ELSE {}) :
        Parse(input)

SpecPrecedence == Init /\ [][NextPrecedence]_vars

\* one call of parse on a new parser, given any of CompareInputs
NextCompare ==
    \E input \in (IF result = NotCalled THEN CompareInputs ELSE {}) :
        Parse(input)

SpecCompare == Init /\ [][NextCompare]_vars

\* one call of parse on a new parser, given any of MatchInputs
NextMatch ==
    \E input \in (IF result = NotCalled THEN MatchInputs ELSE {}) :
        Parse(input)

SpecMatch == Init /\ [][NextMatch]_vars

\* one call of parse on a new parser, given any of NormalInputs
NextNormal ==
    \E input \in (IF result = NotCalled THEN NormalInputs ELSE {}) :
        Parse(input)

SpecNormal == Init /\ [][NextNormal]_vars

\* every kind of primary, with values that are empty, bare, quoted or a
\* keyword, and what combines primaries
RoundTripVocab ==
    {<<"a">>, <<"b">>, <<"2">>, <<"t", "r", "u", "e">>, <<"i", "n">>,
     <<"!">>, <<" ", "&", "&", " ">>, <<" ", "|", "|", " ">>, <<"!", "(">>, <<")">>,
     <<"(", "a", " ", "|", "|", " ", "b", ")">>,
     <<"a", " ", "=", "=", " ">>, <<"a", "=", "=", "'", "b", " ", "c", "'">>,
     <<"b", " ", "!", "=", " ">>,
     <<"a", " ", "<", " ">>, <<"b", " ", ">", "=", " ">>,
     <<"a", " ", "i", "n", " ">>, <<"a", " ", "n", "o", "t", " ", "i", "n", " ", "'", "b", " ", "c", "'">>,
     <<"a", " ", "=", "~", " ", "/", "b", "/", "i">>,
     <<"a", " ", "=", "~", " ", "'", "/", "a", "/", "b", "/", "'">>,
     <<"a", " ", "=", "~", " ", "/", "/">>}

RoundTripInputs == Phrases(RoundTripVocab, MaxRoundTripWords)

NextRoundTrip ==
    \E input \in (IF result = NotCalled THEN RoundTripInputs ELSE {}) :
        Parse(input)

SpecRoundTrip == Init /\ [][NextRoundTrip]_vars

\* inputs of whitespace only, the empty one among them
BlankVocab == {<<" ">>, <<"\t">>, <<"\n">>, <<"\r">>}

BlankInputs == Phrases(BlankVocab, MaxBlankWords)

\* inputs that leave a tree, a lexing error or a parsing error behind, with
\* and without whitespace around them
OtherInputs ==
    {<<"a">>, <<"=">>, <<")">>, <<"a", " ">>, <<" ", "a">>, <<"a", " ", ")">>,
     <<"'", " ">>, <<"a", "\n", "&", "&", "\t", "b">>}

\* parse is called with an input of whitespace or with one of the others,
\* on a new parser or on a used one
NextBlank == \E input \in BlankInputs \cup OtherInputs : Parse(input)

SpecBlank == Init /\ [][NextBlank]_vars

-----------------------------------------------------------------------------
(* Properties of Parser.parse, checked under Spec *)

\* parse returned an expression tree
IsTree(r) == r # Undefined /\ r # NotCalled

\* the parser has been called, and its last call was given a non-empty input
CalledNonEmpty == result # NotCalled /\ parseArg # <<>>

\* the fields of a fresh Parser after parse(input)
FreshParse(input) == ParserParse(ParserNew, input)

\* C1: after any sequence of parse calls on one parser, the lexing errors and
\* the parsing errors are those a fresh parser reports for the input of the
\* last call.
C1_ErrorsAreThoseOfTheLastCall ==
    result # NotCalled =>
        /\ s_errorTokens = LexingErrors(FreshParse(parseArg))
        /\ p_parsingErrors = FreshParse(parseArg).parsingErrors

\* C2: after parse("") the result is undefined and both error lists are
\* empty, whatever the parser parsed before.
C2_EmptyInputLeavesNoErrors ==
    (result # NotCalled /\ parseArg = <<>>) =>
        /\ result = Undefined
        /\ s_errorTokens = <<>>
        /\ p_parsingErrors = <<>>

\* C3: for a non-empty input parse returns a tree and leaves both error
\* lists empty, or returns undefined and leaves one of them non-empty.
C3_TreeOrErrors ==
    CalledNonEmpty =>
        \/ IsTree(result) /\ s_errorTokens = <<>> /\ p_parsingErrors = <<>>
        \/ result = Undefined /\ (s_errorTokens # <<>> \/ p_parsingErrors # <<>>)

\* a negation was parsed: a tree is returned and both error lists are empty
C3_Witness ==
    /\ CalledNonEmpty
    /\ IsTree(result)
    /\ result.kind = "Not"
    /\ s_errorTokens = <<>>
    /\ p_parsingErrors = <<>>

\* C4: when the scan of the input yields an Error token, parse returns
\* undefined and runs no grammar production: the call leaves the parser's
\* cursor and its parsing errors as they were.
C4_LexingErrorsSkipTheGrammar ==
    [][(/\ parseArg' # <<>>
        /\ \E i \in DOMAIN p_tokens' : p_tokens'[i].type = "Error")
       => (/\ result' = Undefined
           /\ p_current' = p_current
           /\ p_parsingErrors' = p_parsingErrors)]_vars

\* an input with a lexing error was parsed after a parse that had moved the
\* cursor and recorded a parsing error: both are still there
C4_Witness ==
    /\ CalledNonEmpty
    /\ s_errorTokens # <<>>
    /\ p_current > 0
    /\ p_parsingErrors # <<>>

\* C5: when the try statement of parse fails on an input scanned without
\* lexing errors, parse returns undefined, exactly one parsing error is
\* recorded, and its token is the token at the parser's cursor, where parsing
\* stopped.
C5_OneParsingErrorAtTheCursor ==
    (CalledNonEmpty /\ s_errorTokens = <<>> /\ ParserTry(p_tokens).status # "ok") =>
        /\ result = Undefined
        /\ Len(p_parsingErrors) = 1
        /\ p_parsingErrors[1].token = ParserPeek(p_tokens, p_current)

\* a parse failed at its third token, a ')' where a primary was expected
C5_Witness ==
    /\ CalledNonEmpty
    /\ s_errorTokens = <<>>
    /\ result = Undefined
    /\ p_current = 2
    /\ Len(p_parsingErrors) = 1
    /\ p_parsingErrors[1].token.type = "RParen"
    /\ p_parsingErrors[1].message = "Expected 'true', 'false', '(', KEY, ... but got"

\* C6: when the expression production succeeds with a token left before EOF,
\* parse returns undefined and records one parsing error, whose token is that
\* first unconsumed token; and whenever parse returns a tree, the cursor is at
\* the EOF token.
C6_TrailingTokenIsAnError ==
    /\ (CalledNonEmpty /\ s_errorTokens = <<>>
        /\ ParserExpr(p_tokens, 0, <<>>).status = "ok"
        /\ ~ParserIsAtEnd(p_tokens, ParserExpr(p_tokens, 0, <<>>).cur))
       => (/\ result = Undefined
           /\ p_current = ParserExpr(p_tokens, 0, <<>>).cur
           /\ Len(p_parsingErrors) = 1
           /\ p_parsingErrors[1].message = "Unexpected token"
           /\ p_parsingErrors[1].token = p_tokens[ParserExpr(p_tokens, 0, <<>>).cur + 1])
    /\ IsTree(result) => ParserIsAtEnd(p_tokens, p_current)

\* an expression was parsed up to its second token and a token was left over
C6_Witness ==
    /\ CalledNonEmpty
    /\ s_errorTokens = <<>>
    /\ result = Undefined
    /\ p_current = 2
    /\ ~ParserIsAtEnd(p_tokens, p_current)
    /\ Len(p_parsingErrors) = 1
    /\ p_parsingErrors[1].message = "Unexpected token"

-----------------------------------------------------------------------------
(* Properties of the Scanner, checked under SpecScan *)

Last(seq) == seq[Len(seq)]

\* C7: the token sequence of every input ends with an EOF token whose offset
\* is the length of the input.
C7_EOFAtInputLength ==
    scanDone =>
        /\ Last(emitted).type = "EOF"
        /\ Last(emitted).offset = Len(s_input)

\* the tokens with every offset raised by n
ShiftOffsets(tokens, n) ==
    [i \in DOMAIN tokens |-> [tokens[i] EXCEPT !.offset = @ + n]]

\* the tokens of a scan of input by a new scanner
TokensOf(input) == ScanAll(ScannerReset(input), <<>>).tokens

\* C8: whitespace before an input only shifts its tokens: the scan of w \o s,
\* w a run of blanks, tabs, CRs and LFs, yields the tokens of the scan of s
\* with every offset raised by the length of w.
C8_LeadingWhitespaceShiftsOffsets ==
    scanDone =>
        \A n \in 1..Len(s_input) :
            (\A i \in 1..n : IsWhitespace(s_input[i]))
            => emitted = ShiftOffsets(TokensOf(SubSeq(s_input, n + 1, Len(s_input))), n)

\* C9: the iterator ends after a single pass from left to right: a call of
\* next() never moves the cursor back and moves it forward unless it returns
\* EOF, EOF is yielded once, as the last token, and an input of n characters
\* yields at most n + 1 tokens.
C9_SinglePass ==
    [][/\ Len(emitted') = Len(emitted) + 1
          => /\ s_current' >= s_current
             /\ Last(emitted').type # "EOF" => s_current' > s_current
       /\ \A i \in 1..Len(emitted') :
             emitted'[i].type = "EOF" <=> (scanDone' /\ i = Len(emitted'))
       /\ Len(emitted') <= Len(s_input') + 1]_vars

\* a scan of three characters has ended with three tokens before EOF, an
\* Error token among them
C9_Witness ==
    /\ scanDone
    /\ Len(emitted) = 4
    /\ Len(s_input) = 3
    /\ \E i \in 1..Len(emitted) : emitted[i].type = "Error"

\* the positions (0-based) from i on where a scan that skips nothing but
\* whitespace finds a bare '=', '&' or '|' at the start of a token, for an
\* input that has neither quote nor slash
RECURSIVE BareOperators(_, _)
BareOperators(in, i) ==
    IF i >= Len(in) THEN {}
    ELSE LET ch == CharAt(in, i)
             follows(c, k) == i + k < Len(in) /\ CharAt(in, i + k) = c
         IN CASE ch = "=" ->
                   IF follows("=", 1)
                   THEN BareOperators(in, IF follows("=", 2) THEN i + 3 ELSE i + 2)
                   ELSE IF follows("~", 1) THEN BareOperators(in, i + 2)
                   ELSE {i} \cup BareOperators(in, i + 1)
              [] ch = "!" ->
                   IF follows("=", 1)
                   THEN BareOperators(in, IF follows("=", 2) THEN i + 3 ELSE i + 2)
                   ELSE BareOperators(in, i + 1)
              [] ch \in {"<", ">"} ->
                   BareOperators(in, IF follows("=", 1) THEN i + 2 ELSE i + 1)
              [] ch \in {"&", "|"} ->
                   IF follows(ch, 1) THEN BareOperators(in, i + 2)
                   ELSE {i} \cup BareOperators(in, i + 1)
              [] ch \in {"(", ")", " ", "\t", "\r", "\n"} -> BareOperators(in, i + 1)
              [] OTHER ->
                   BareOperators(in, StringRunEnd(ScannerState(in, i, i + 1, <<>>)).current)

\* C10: every bare '=', '&' and '|' is yielded as an Error token with that
\* character as lexeme and its index as offset, also one that comes after
\* an earlier Error token.
C10_EveryBareOperatorIsAnError ==
    (scanDone /\ \A k \in 1..Len(s_input) : s_input[k] \notin {"'", "/"}) =>
        \A i \in BareOperators(s_input, 0) :
            \E k \in 1..Len(emitted) :
                emitted[k] = Token("Error", i, <<CharAt(s_input, i)>>)

\* the operators of the language, longest first, with their token types
Operators ==
    <<[text |-> <<"=", "=", "=">>, type |-> "Eq"],
      [text |-> <<"!", "=", "=">>, type |-> "NotEq"],
      [text |-> <<"=", "=">>, type |-> "Eq"],
      [text |-> <<"!", "=">>, type |-> "NotEq"],
      [text |-> <<"<", "=">>, type |-> "LtEq"],
      [text |-> <<">", "=">>, type |-> "GtEq"],
      [text |-> <<"&", "&">>, type |-> "And"],
      [text |-> <<"|", "|">>, type |-> "Or"],
      [text |-> <<"=", "~">>, type |-> "RegexOp"],
      [text |-> <<"!">>, type |-> "Neg"],
      [text |-> <<"<">>, type |-> "Lt"],
      [text |-> <<">">>, type |-> "Gt"]>>

\* input in holds text at position i (0-based)
HasAt(in, i, text) ==
    i + Len(text) <= Len(in) /\ SubSeq(in, i + 1, i + Len(text)) = text

\* the index in Operators of the longest operator in holds at position i,
\* 0 when it holds none there
LongestOperatorAt(in, i) ==
    IF \E k \in 1..Len(Operators) : HasAt(in, i, Operators[k].text)
    THEN CHOOSE k \in 1..Len(Operators) :
            /\ HasAt(in, i, Operators[k].text)
            /\ \A j \in 1..(k - 1) : ~HasAt(in, i, Operators[j].text)
    ELSE 0

\* a call of next() has yielded a token other than EOF; it starts at _start
YieldedToken == Len(emitted') = Len(emitted) + 1 /\ Last(emitted').type # "EOF"

QuoteAfter(in, i) ==
    IF \E q \in (i + 1)..(Len(in) - 1) : CharAt(in, q) = "'"
    THEN CHOOSE q \in (i + 1)..(Len(in) - 1) :
            CharAt(in, q) = "'" /\ \A j \in (i + 1)..(q - 1) : CharAt(in, j) # "'"
    ELSE -1

\* C12: a quote at the start of a token starts a quoted string.  When a
\* later quote exists, the token yielded is a QuotedStr whose lexeme is the
\* text between the two quotes, and the cursor is moved past the closing
\* quote.  Otherwise it is an Error token whose offset is the index of the
\* opening quote and whose lexeme runs from that quote to the end of the
\* input; it is recorded in errorTokens and the next token yielded is EOF.
C12_QuotedStringOrError ==
    [][/\ (YieldedToken /\ CharAt(s_input, s_start') = "'")
          => LET open == s_start'
                 close == QuoteAfter(s_input, s_start')
             IN IF close # -1
                THEN /\ Last(emitted').type = "QuotedStr"
                     /\ Last(emitted').lexeme = SubSeq(s_input, open + 2, close)
                     /\ s_current' = close + 1
                     /\ s_errorTokens' = s_errorTokens
                ELSE /\ Last(emitted') =
                           Token("Error", open, SubSeq(s_input, open + 1, Len(s_input)))
                     /\ s_errorTokens' = Append(s_errorTokens, Last(emitted'))
       /\ (/\ Len(emitted') = Len(emitted) + 1
           /\ emitted # <<>>
           /\ Last(emitted).type = "Error"
           /\ Head(Last(emitted).lexeme) = "'")
          => Last(emitted').type = "EOF"]_vars

\* the input a'a has been scanned: the quote is not closed
C12_Witness ==
    /\ scanDone
    /\ s_input = <<"a", "'", "a">>
    /\ emitted = <<Token("Str", 0, <<"a">>), Token("Error", 1, <<"'", "a">>),
                   Token("EOF", 3, NoLexeme)>>
    /\ s_errorTokens = <<Token("Error", 1, <<"'", "a">>)>>

\* the characters of an identifier
IdentifierChars ==
    LowerCase \cup UpperCase \cup Digits
    \cup {"_", "-", ".", "/", "\\", ":", "*", "?", "<", ">", "%", "+"}

\* C14: the lexeme of every Str token consists of letters, digits and the
\* characters _ - . / \ : * ? < > % + only, and the run is maximal: the
\* character of the input right after it is none of them.
C14_IdentifiersAreMaximalRuns ==
    \A k \in 1..Len(emitted) :
        emitted[k].type = "Str" =>
            LET after == emitted[k].offset + Len(emitted[k].lexeme)
            IN /\ \A i \in 1..Len(emitted[k].lexeme) :
                     emitted[k].lexeme[i] \in IdentifierChars
               /\ after < Len(s_input) => CharAt(s_input, after) \notin IdentifierChars

\* the error tokens of a scan of input by a new scanner
ErrorTokensOf(input) == ScanAll(ScannerReset(input), <<>>).scanner.errorTokens

\* C16: a scan does not depend on what the scanner scanned before: after
\* reset(s2) on a scanner that has scanned another input, the tokens yielded
\* are those a new scanner yields for s2, and at the end of the scan
\* errorTokens is what a new scanner has for s2.
C16_ScanIsStatelessAcrossResets ==
    prevErrorCount >= 0 =>
        /\ Len(emitted) <= Len(TokensOf(s_input))
        /\ emitted = SubSeq(TokensOf(s_input), 1, Len(emitted))
        /\ scanDone => s_errorTokens = ErrorTokensOf(s_input)

\* a scanner that held an error token was reset to an input without errors
\* and has scanned it
C16_Witness ==
    /\ prevErrorCount > 0
    /\ scanDone
    /\ s_input = <<"a">>
    /\ emitted = <<Token("Str", 0, <<"a">>), Token("EOF", 1, NoLexeme)>>
    /\ s_errorTokens = <<>>

-----------------------------------------------------------------------------
(* Properties of keywords, checked under SpecKeywords *)

\* the reserved words and their token types
ReservedWords ==
    {[text |-> <<"t", "r", "u", "e">>, type |-> "True"],
     [text |-> <<"f", "a", "l", "s", "e">>, type |-> "False"],
     [text |-> <<"i", "n">>, type |-> "In"],
     [text |-> <<"n", "o", "t">>, type |-> "Not"]}

\* C15: a captured run yields the token True, False, In or Not exactly when
\* the whole run is true, false, in or not, in lower case; otherwise it
\* yields a Str with the run as lexeme, so no Str has a reserved word as
\* lexeme.  The run captured ends where the identifier characters end.
C15_KeywordsAreWholeRuns ==
    [][(YieldedToken /\ Last(emitted').type \in {"Str", "True", "False", "In", "Not"})
       => LET run == SubSeq(s_input, s_start' + 1, s_current')
          IN /\ \A w \in ReservedWords : Last(emitted').type = w.type <=> run = w.text
             /\ Last(emitted').type = "Str"
                => /\ Last(emitted').lexeme = run
                   /\ \A w \in ReservedWords : Last(emitted').lexeme # w.text
             /\ s_current' < Len(s_input)
                => CharAt(s_input, s_current') \notin IdentifierChars]_vars

\* the input "not In" has been scanned: not is a keyword, In is not
C15_Witness ==
    /\ scanDone
    /\ s_input = <<"n", "o", "t", " ", "I", "n">>
    /\ emitted = <<Token("Not", 0, NoLexeme), Token("Str", 4, <<"I", "n">>),
                   Token("EOF", 6, NoLexeme)>>

-----------------------------------------------------------------------------
(* Properties of regex literals, checked under SpecRegex *)

\* the number of backslashes right before position p, none before position b
RECURSIVE BackslashesBefore(_, _, _)
BackslashesBefore(in, b, p) ==
    IF p > b /\ CharAt(in, p - 1) = "\\" THEN 1 + BackslashesBefore(in, b, p - 1)
    ELSE 0

\* the character at p of a regex body that starts at b is escaped: an odd
\* number of backslashes precedes it
Escaped(in, b, p) == BackslashesBefore(in, b, p) % 2 = 1

\* position p of a regex body that starts at b is inside a character class:
\* an unescaped [ precedes it with no unescaped ] in between
InCharacterClass(in, b, p) ==
    \E j \in b..(p - 1) :
        /\ CharAt(in, j) = "[" /\ ~Escaped(in, b, j)
        /\ \A k \in (j + 1)..(p - 1) : ~(CharAt(in, k) = "]" /\ ~Escaped(in, b, k))

\* the slashes that can close a regex body that starts at b
ClosingSlashes(in, b) ==
    {p \in b..(Len(in) - 1) :
        CharAt(in, p) = "/" /\ ~Escaped(in, b, p) /\ ~InCharacterClass(in, b, p)}

-----------------------------------------------------------------------------
(* Properties of Scanner.reportError, checked under SpecReport *)

\* the hint of the message for an Error token with this lexeme; the cases
\* are tried in this order
HintFor(lexeme) ==
    IF lexeme = <<"=">> THEN "Did you mean '==' or '=~'?"
    ELSE IF lexeme = <<"&">> THEN "Did you mean '&&'?"
    ELSE IF lexeme = <<"|">> THEN "Did you mean '||'?"
    ELSE IF lexeme # NoLexeme /\ Len(lexeme) > 1 /\ lexeme[1] = "'"
    THEN "Did you forget to close the string?"
    ELSE IF lexeme # NoLexeme /\ Len(lexeme) > 1 /\ lexeme[Len(lexeme)] = "'"
    THEN "Did you forget to open the string?"
    ELSE ""

\* C17: reportError throws for every token that is no Error token.  For an
\* Error token it returns a message that names the lexeme and the offset,
\* with the hint for == or =~ when the lexeme is =, for && when it is &, for
\* || when it is |, the hint to close the string when the lexeme is longer
\* than one character and starts with a quote, else the hint to open the
\* string when it is longer than one character and ends with a quote, and no
\* hint otherwise.
C17_ReportErrorMessages ==
    reported # NotReported =>
        IF reported.token.type # "Error"
        THEN reported.outcome.kind = "throws"
        ELSE /\ reported.outcome.kind = "message"
             /\ reported.outcome.lexeme = reported.token.lexeme
             /\ reported.outcome.offset = reported.token.offset
             /\ reported.outcome.hint = HintFor(reported.token.lexeme)

\* reportError was given an Error token whose lexeme only ends with a quote
C17_Witness ==
    /\ reported.token = Token("Error", 1, <<"a", "'">>)
    /\ reported.outcome.kind = "message"
    /\ reported.outcome.hint = "Did you forget to open the string?"

-----------------------------------------------------------------------------
(* Properties of the grammar's precedence, checked under SpecPrecedence *)

\* open parentheses minus closed ones among the first i - 1 tokens of ts
DepthBefore(ts, i) ==
    Cardinality({j \in 1..(i - 1) : ts[j].type = "LParen"})
    - Cardinality({j \in 1..(i - 1) : ts[j].type = "RParen"})

\* the positions of the tokens of type sep of ts outside all parentheses
TopLevel(ts, sep) == {i \in 1..Len(ts) : ts[i].type = sep /\ DepthBefore(ts, i) = 0}

\* ts cut at its tokens of type sep that are outside all parentheses
RECURSIVE SplitAt(_, _)
SplitAt(ts, sep) ==
    IF TopLevel(ts, sep) = {} THEN <<ts>>
    ELSE <<SubSeq(ts, 1, (CHOOSE i \in TopLevel(ts, sep) :
                             \A j \in TopLevel(ts, sep) : i <= j) - 1)>>
         \o SplitAt(SubSeq(ts, (CHOOSE i \in TopLevel(ts, sep) :
                                   \A j \in TopLevel(ts, sep) : i <= j) + 1, Len(ts)),
                    sep)

\* ts is one parenthesised group: its first parenthesis is closed by its
\* last token
IsGroup(ts) ==
    /\ Len(ts) >= 2
    /\ ts[1].type = "LParen"
    /\ ts[Len(ts)].type = "RParen"
    /\ \A i \in 2..Len(ts) : DepthBefore(ts, i) > 0

\* the reference parser of the grammar
\*   or ::= and { '||' and }    and ::= term { '&&' term }
\*   term ::= '!' term | primary    primary ::= '(' or ')' | KEY
\* for tokens without EOF: it cuts at the operator of lowest precedence
\* first; Undefined when ts is no sentence
RECURSIVE ReferenceOr(_)
RECURSIVE ReferenceAnd(_)
RECURSIVE ReferenceTerm(_)

\* the operands combined, Undefined when one of them is
ReferenceCombined(kind, operands) ==
    IF \E i \in 1..Len(operands) : operands[i] = Undefined THEN Undefined
    ELSE IF kind = "Or" THEN ExprOr(operands) ELSE ExprAnd(operands)

ReferenceNot(inner) == IF inner = Undefined THEN Undefined ELSE ExprNot(inner)

ReferenceOrOf(pieces) ==
    IF Len(pieces) = 1 THEN ReferenceAnd(pieces[1])
    ELSE ReferenceCombined("Or", [i \in 1..Len(pieces) |-> ReferenceAnd(pieces[i])])

ReferenceAndOf(pieces) ==
    IF Len(pieces) = 1 THEN ReferenceTerm(pieces[1])
    ELSE ReferenceCombined("And", [i \in 1..Len(pieces) |-> ReferenceTerm(pieces[i])])

ReferenceOr(ts) == ReferenceOrOf(SplitAt(ts, "Or"))

ReferenceAnd(ts) == ReferenceAndOf(SplitAt(ts, "And"))

ReferenceTerm(ts) ==
    IF ts = <<>> THEN Undefined
    ELSE IF ts[1].type = "Neg" THEN ReferenceNot(ReferenceTerm(Tail(ts)))
    ELSE IF IsGroup(ts) THEN ReferenceOr(SubSeq(ts, 2, Len(ts) - 1))
    ELSE IF Len(ts) = 1 /\ ts[1].type = "Str" THEN ExprHas(ts[1].lexeme)
    ELSE Undefined

\* the tokens are keys, !, &&, || and parentheses, and EOF at the end
PrecedenceTokens(tokens) ==
    \A i \in 1..Len(tokens) :
        tokens[i].type \in {"Str", "Neg", "And", "Or", "LParen", "RParen", "EOF"}

\* C18: ! binds tighter than &&, && tighter than ||, and parentheses
\* override: for an input of keys, !, &&, || and parentheses scanned without
\* errors, parse returns the tree of the reference parser of the grammar
\* (undefined when the input is no sentence); a || b && c is Or(a, And(b, c)),
\* !a && b is And(Not(a), b) and (a || b) && c is And(Or(a, b), c).
C18_PrecedenceOfNotAndOr ==
    (CalledNonEmpty /\ s_errorTokens = <<>> /\ PrecedenceTokens(p_tokens)) =>
        /\ result = ReferenceOr(SubSeq(p_tokens, 1, Len(p_tokens) - 1))
        /\ parseArg = <<"a", "|", "|", "b", "&", "&", "c">>
           => result = Expr("Or", <<>>, <<>>, FALSE,
                            <<ExprHas(<<"a">>),
                              Expr("And", <<>>, <<>>, FALSE,
                                   <<ExprHas(<<"b">>), ExprHas(<<"c">>)>>)>>)
        /\ parseArg = <<"!", "a", "&", "&", "b">>
           => result = Expr("And", <<>>, <<>>, FALSE,
                            <<ExprHas(<<"b">>),
                              Expr("Not", <<>>, <<>>, FALSE, <<ExprHas(<<"a">>)>>)>>)
        /\ parseArg = <<"(", "a", "|", "|", "b", ")", "&", "&", "c">>
           => result = Expr("And", <<>>, <<>>, FALSE,
                            <<ExprHas(<<"c">>),
                              Expr("Or", <<>>, <<>>, FALSE,
                                   <<ExprHas(<<"a">>), ExprHas(<<"b">>)>>)>>)

\* a || b && c has been parsed to Or(a, And(b, c))
C18_Witness ==
    /\ parseArg = <<"a", "|", "|", "b", "&", "&", "c">>
    /\ result.kind = "Or"
    /\ Len(result.operands) = 2
    /\ result.operands[2].kind = "And"

-----------------------------------------------------------------------------
(* Properties of comparisons, checked under SpecCompare *)

\* the types of the tokens of p_tokens from the first on are those of types
TokensAre(types) ==
    /\ Len(p_tokens) = Len(types)
    /\ \A i \in 1..Len(types) : p_tokens[i].type = types[i]

\* token is the keyword true or false, or the quoted string 'true' or 'false'
IsBoolean(token) ==
    \/ token.type \in {"True", "False"}
    \/ /\ token.type = "QuotedStr"
       /\ token.lexeme \in {<<"t", "r", "u", "e">>, <<"f", "a", "l", "s", "e">>}

\* token is true, keyword or quoted
IsTrue(token) ==
    token.type = "True" \/ (token.type = "QuotedStr" /\ token.lexeme = <<"t", "r", "u", "e">>)

\* an Equals or a NotEquals node occurs in the tree expr
RECURSIVE HasEqualsNode(_)
HasEqualsNode(expr) ==
    \/ expr.kind \in {"Equals", "NotEquals"}
    \/ \E i \in 1..Len(expr.operands) : HasEqualsNode(expr.operands[i])

\* C19: KEY == v and KEY != v with v one of true, false, 'true', 'false'
\* parse to a tree without Equals and NotEquals nodes: KEY == true and
\* KEY != false to Has(KEY), the tree of the input KEY; KEY == false and
\* KEY != true to Not(Has(KEY)).
C19_BooleanComparisonsAreHasOrNot ==
    \A op \in {"Eq", "NotEq"} :
        (/\ CalledNonEmpty
         /\ s_errorTokens = <<>>
         /\ Len(p_tokens) = 4
         /\ TokensAre(<<"Str", op, p_tokens[3].type, "EOF">>)
         /\ IsBoolean(p_tokens[3])) =>
            /\ ~HasEqualsNode(result)
            /\ (op = "Eq") = IsTrue(p_tokens[3]) =>
                  /\ result = Expr("Has", p_tokens[1].lexeme, <<>>, FALSE, <<>>)
                  /\ result = FreshParse(p_tokens[1].lexeme).result
            /\ (op = "Eq") # IsTrue(p_tokens[3]) =>
                  result = Expr("Not", <<>>, <<>>, FALSE,
                                <<Expr("Has", p_tokens[1].lexeme, <<>>, FALSE, <<>>)>>)

\* a != 'false' has been parsed to Has(a)
C19_Witness ==
    /\ parseArg = <<"a", " ", "!", "=", " ", "'", "f", "a", "l", "s", "e", "'">>
    /\ result = Expr("Has", <<"a">>, <<>>, FALSE, <<>>)

\* the token types of the comparison operators of one token
CompareOperators == {"Eq", "NotEq", "Lt", "LtEq", "Gt", "GtEq", "In"}

\* the tokens the value production takes
IsValue(token) == token.type \in {"Str", "QuotedStr", "True", "False", "In"}

\* the text of a token the value production takes
ValueText(token) ==
    CASE token.type \in {"Str", "QuotedStr"} -> token.lexeme
      [] token.type = "True" -> <<"t", "r", "u", "e">>
      [] token.type = "False" -> <<"f", "a", "l", "s", "e">>
      [] token.type = "In" -> <<"i", "n">>

\* the node of the comparison of key with right by the operator op, "NotIn"
\* for not in
CompareNode(op, key, right) ==
    CASE op = "Eq" -> ExprEquals(key, right)
      [] op = "NotEq" -> ExprNotEquals(key, right)
      [] op = "Lt" -> Expr("Smaller", key, right, FALSE, <<>>)
      [] op = "LtEq" -> Expr("SmallerEquals", key, right, FALSE, <<>>)
      [] op = "Gt" -> Expr("Greater", key, right, FALSE, <<>>)
      [] op = "GtEq" -> Expr("GreaterEquals", key, right, FALSE, <<>>)
      [] op = "In" -> Expr("In", key, right, FALSE, <<>>)
      [] op = "NotIn" -> Expr("NotIn", key, right, FALSE, <<>>)

\* p_tokens begins with KEY and the operator op, after an opening
\* parenthesis when open = 1; at is the position of the token after them
ComparisonAt(open, op, at) ==
    /\ open = 1 => p_tokens[1].type = "LParen"
    /\ Len(p_tokens) >= at
    /\ p_tokens[open + 1].type = "Str"
    /\ IF op = "NotIn"
       THEN at = open + 4 /\ p_tokens[open + 2].type = "Not" /\ p_tokens[open + 3].type = "In"
       ELSE at = open + 3 /\ p_tokens[open + 2].type = op

\* C20: after KEY and a comparison operator (==, !=, <, <=, >, >=, in,
\* not in) the value production takes one token, an identifier, a quoted
\* string, true, false or in, and its text is the value compared with;
\* before any other token it takes nothing and the value is the empty string:
\* at the end of the input and before a closing parenthesis the comparison
\* with '' is built, and any other token is the unexpected token the parse
\* stops at.
C20_ValueTakesOneTokenOrNone ==
    \A open \in {0, 1}, op \in CompareOperators \cup {"NotIn"}, at \in 3..5 :
        (CalledNonEmpty /\ s_errorTokens = <<>> /\ ComparisonAt(open, op, at)) =>
            /\ (IsValue(p_tokens[at]) /\ open = 0 /\ Len(p_tokens) = at + 1) =>
                  /\ result = CompareNode(op, p_tokens[1].lexeme, ValueText(p_tokens[at]))
                  /\ p_current = at
            /\ (p_tokens[at].type = "EOF" /\ open = 0) =>
                  /\ result = CompareNode(op, p_tokens[1].lexeme, <<>>)
                  /\ p_current = at - 1
            /\ (p_tokens[at].type = "RParen" /\ open = 1 /\ Len(p_tokens) = at + 1) =>
                  /\ result = CompareNode(op, p_tokens[2].lexeme, <<>>)
                  /\ p_current = at
            /\ (~IsValue(p_tokens[at]) /\ p_tokens[at].type \notin {"EOF", "RParen"}) =>
                  /\ result = Undefined
                  /\ p_current = at - 1

\* a == in has been parsed to Equals(a, 'in')
C20_Witness ==
    /\ parseArg = <<"a", " ", "=", "=", " ", " ", "i", "n", " ">>
    /\ result = Expr("Equals", <<"a">>, <<"i", "n">>, FALSE, <<>>)

\* a == has been parsed to Equals(a, '')
C20_WitnessEmpty ==
    /\ parseArg = <<"a", " ", "=", "=", " ">>
    /\ result = Expr("Equals", <<"a">>, <<>>, FALSE, <<>>)

\* C21: after KEY, not must be followed at once by in: KEY not in value is
\* NotIn(KEY, value), and KEY not before any other token, EOF included, makes
\* parse return undefined with one parsing error, at the token after not.
C21_NotMustBeFollowedByIn ==
    (/\ CalledNonEmpty
     /\ s_errorTokens = <<>>
     /\ Len(p_tokens) >= 3
     /\ p_tokens[1].type = "Str"
     /\ p_tokens[2].type = "Not") =>
        /\ (p_tokens[3].type = "In" /\ Len(p_tokens) = 5 /\ IsValue(p_tokens[4])) =>
              result = Expr("NotIn", p_tokens[1].lexeme, ValueText(p_tokens[4]), FALSE, <<>>)
        /\ p_tokens[3].type # "In" =>
              /\ result = Undefined
              /\ Len(p_parsingErrors) = 1
              /\ p_parsingErrors[1].token = p_tokens[3]

\* a not == has been parsed: the error is at ==
C21_Witness ==
    /\ parseArg = <<"a", " ", "n", "o", "t", " ", " ", "=", "=", " ">>
    /\ result = Undefined
    /\ Len(p_parsingErrors) = 1
    /\ p_parsingErrors[1].token.type = "Eq"

\* a not in 'b' has been parsed to NotIn(a, 'b')
C21_WitnessNotIn ==
    /\ parseArg = <<"a", " ", "n", "o", "t", " ", "i", "n", " ", "'", "b", "'">>
    /\ result = Expr("NotIn", <<"a">>, <<"b">>, FALSE, <<>>)

-----------------------------------------------------------------------------
(* Properties of KEY =~ regex, checked under SpecMatch *)

\* the pattern of the regular expression that matches nothing
NeverMatching == <<"i", "n", "v", "a", "l", "i", "d">>

\* the number of slashes of s
Slashes(s) == Cardinality({i \in 1..Len(s) : s[i] = "/"})

\* C22: for KEY =~ 'content' with content that holds no slash or only one,
\* the Regex node carries the fixed fallback pattern, parse returns a tree
\* and no parsing error is recorded.
C22_MalformedQuotedRegexFallsBack ==
    (/\ CalledNonEmpty
     /\ s_errorTokens = <<>>
     /\ TokensAre(<<"Str", "RegexOp", "QuotedStr", "EOF">>)
     /\ Slashes(p_tokens[3].lexeme) <= 1) =>
        /\ result = Expr("Regex", p_tokens[1].lexeme, NeverMatching, FALSE, <<>>)
        /\ p_parsingErrors = <<>>

\* the positions of the first and of the last slash of s, which holds one
FirstSlash(s) == CHOOSE i \in 1..Len(s) : s[i] = "/" /\ \A j \in 1..Len(s) : s[j] = "/" => i <= j

LastSlash(s) == CHOOSE i \in 1..Len(s) : s[i] = "/" /\ \A j \in 1..Len(s) : s[j] = "/" => j <= i

\* the text of s between its first and its last slash
BetweenSlashes(s) == SubSeq(s, FirstSlash(s) + 1, LastSlash(s) - 1)

\* the character right after the last slash of s is i
FlagAfterLastSlash(s) == LastSlash(s) < Len(s) /\ s[LastSlash(s) + 1] = "i"

\* p_tokens are KEY, =~, a token of one of types, and EOF
MatchTokens(types) ==
    /\ CalledNonEmpty
    /\ s_errorTokens = <<>>
    /\ Len(p_tokens) = 4
    /\ TokensAre(<<"Str", "RegexOp", p_tokens[3].type, "EOF">>)
    /\ p_tokens[3].type \in types

\* parse returned undefined with one parsing error, at token
FailedAt(token) ==
    /\ result = Undefined
    /\ Len(p_parsingErrors) = 1
    /\ p_parsingErrors[1].token = token

\* any token but a regex literal or a quoted string after KEY =~ is a parse
\* error
OtherTokenAfterRegexOpFails ==
    (/\ CalledNonEmpty
     /\ s_errorTokens = <<>>
     /\ Len(p_tokens) >= 3
     /\ p_tokens[1].type = "Str"
     /\ p_tokens[2].type = "RegexOp"
     /\ p_tokens[3].type \notin {"RegexStr", "RegexStrI", "QuotedStr"}) =>
        FailedAt(p_tokens[3])

-----------------------------------------------------------------------------
(* Properties of the normal form of trees, checked under SpecNormal *)

\* the operands of the And or Or node expr are two or more, none is of the
\* kind of expr, and each is before the next in the canonical order (so no
\* two are equal)
CanonicalOperands(expr) ==
    /\ Len(expr.operands) >= 2
    /\ \A i \in 1..Len(expr.operands) : expr.operands[i].kind # expr.kind
    /\ \A i, j \in 1..Len(expr.operands) : i # j => expr.operands[i] # expr.operands[j]
    /\ \A i \in 1..(Len(expr.operands) - 1) :
          CompareExprs(expr.operands[i], expr.operands[i + 1]) < 0

\* every And and Or node of the tree expr has canonical operands
RECURSIVE IsCanonical(_)
IsCanonical(expr) ==
    /\ expr.kind \in {"And", "Or"} => CanonicalOperands(expr)
    /\ \A i \in 1..Len(expr.operands) : IsCanonical(expr.operands[i])

\* C24: every And and Or node of a tree parse returns has two operands or
\* more, none of its own kind, no two equal, in the canonical order;
\* a && (b && c) gives the tree of a && b && c and a || a that of a.
C24_AndOrNodesAreCanonical ==
    (CalledNonEmpty /\ IsTree(result)) =>
        /\ IsCanonical(result)
        /\ parseArg = <<"a", "&", "&", "(", "b", "&", "&", "c", ")">>
           => result = FreshParse(<<"a", "&", "&", "b", "&", "&",
                                    "c">>).result
        /\ parseArg = <<"a", "|", "|", "a">> => result = FreshParse(<<"a">>).result

\* a && (b && c) has been parsed to an And of three operands
C24_Witness ==
    /\ parseArg = <<"a", "&", "&", "(", "b", "&", "&", "c", ")">>
    /\ result.kind = "And"
    /\ Len(result.operands) = 3

\* operands of && and ||: keys, parenthesised expressions and their negations
NormalOperands ==
    {<<"a">>, <<"b">>, <<"!", "a">>, <<"!", "b">>,
     <<"(", "b", "&", "&", "c", ")">>, <<"(", "b", "&", "&", "a", ")">>,
     <<"(", "a", "|", "|", "b", ")">>,
     <<"!", "(", "b", "&", "&", "c", ")">>, <<"!", "(", "a", "|", "|", "b", ")">>}

\* C25: the order of the operands does not matter: for operands x and y,
\* x && y parses without errors to the tree of y && x, and x || y to that of
\* y || x.
C25_OperandOrderDoesNotMatter ==
    \A x \in NormalOperands, y \in NormalOperands, op \in {<<"&", "&">>, <<"|", "|">>} :
        (CalledNonEmpty /\ parseArg = x \o op \o y) =>
            /\ IsTree(result)
            /\ result = FreshParse(y \o op \o x).result

\* !a&&b has been parsed to the And that b&&!a gives
C25_Witness ==
    /\ parseArg = <<"!", "a", "&", "&", "b">>
    /\ result.kind = "And"
    /\ result = FreshParse(<<"b", "&", "&", "!", "a">>).result

\* expressions to negate: keys, a negated key, parenthesised expressions
NegatedOperands ==
    {<<"a">>, <<"b">>, <<"!", "a">>,
     <<"(", "b", "&", "&", "c", ")">>, <<"(", "b", "&", "&", "a", ")">>,
     <<"(", "a", "|", "|", "b", ")">>}

\* C27: a negation of a negation cancels: for an expression x, !(!x) and !!x
\* parse without errors to the tree of x, which is not the tree of !x.
C27_DoubleNegationCancels ==
    \A x \in NegatedOperands :
        /\ (CalledNonEmpty
            /\ parseArg \in {<<"!", "(", "!">> \o x \o <<")">>, <<"!", "!">> \o x}) =>
              /\ IsTree(result)
              /\ result = FreshParse(x).result
        /\ (CalledNonEmpty /\ parseArg = <<"!">> \o x) =>
              /\ IsTree(result)
              /\ result # FreshParse(x).result

\* !(!a) has been parsed to Has(a)
C27_Witness ==
    /\ parseArg = <<"!", "(", "!", "a", ")">>
    /\ result = Expr("Has", <<"a">>, <<>>, FALSE, <<>>)

\* C28: the negation of a parenthesised conjunction of two keys is a Not
\* node around the And node of the two keys in the canonical order, not an
\* Or of negations: !(b&&a) is Not(And(a, b)) and serializes as !(a && b).
C28_NegatedConjunctionStaysNotAnd ==
    (/\ CalledNonEmpty
     /\ s_errorTokens = <<>>
     /\ TokensAre(<<"Neg", "LParen", "Str", "And", "Str", "RParen", "EOF">>)
     /\ p_tokens[3].lexeme # p_tokens[5].lexeme) =>
        /\ result.kind = "Not"
        /\ result.operands[1].kind = "And"
        /\ \E first \in {3, 5} :
              /\ CompareStrings(p_tokens[first].lexeme, p_tokens[8 - first].lexeme) < 0
              /\ result.operands[1].operands
                 = <<Expr("Has", p_tokens[first].lexeme, <<>>, FALSE, <<>>),
                     Expr("Has", p_tokens[8 - first].lexeme, <<>>, FALSE, <<>>)>>
        /\ parseArg = <<"!", "(", "b", "&", "&", "a", ")">>
           => Serialize(result) = <<"!", "(", "a", " ", "&", "&", " ", "b", ")">>

\* !(b&&a) has been parsed to Not(And(a, b))
C28_Witness ==
    /\ parseArg = <<"!", "(", "b", "&", "&", "a", ")">>
    /\ result.kind = "Not"
    /\ Serialize(result) = <<"!", "(", "a", " ", "&", "&", " ", "b", ")">>

\* the tokens that continue the primary a KEY starts
KeyContinuations == {"RegexOp", "Not", "Eq", "NotEq", "Lt", "LtEq", "Gt", "GtEq", "In"}

\* C29: a KEY that is not followed by =~, not or a comparison operator is
\* Has(KEY) and takes one token: a KEY alone is Has(KEY) with the cursor on
\* EOF, KEY && KEY and KEY || KEY combine the two Has nodes, ! ( KEY ) and
\* ! KEY close on the token after the KEY, and a token after a leading KEY
\* that no enclosing production takes is the token of the one parsing
\* error, with the cursor on it.
C29_BareKeyIsHasAndTakesOneToken ==
    (/\ CalledNonEmpty
     /\ s_errorTokens = <<>>) =>
        /\ TokensAre(<<"Str", "EOF">>) =>
              /\ result = Expr("Has", p_tokens[1].lexeme, <<>>, FALSE, <<>>)
              /\ p_current = 1
              /\ p_parsingErrors = <<>>
        /\ \A op \in {"And", "Or"} :
              (TokensAre(<<"Str", op, "Str", "EOF">>) /\ p_tokens[1].lexeme # p_tokens[3].lexeme) =>
                 /\ result.kind = op
                 /\ {result.operands[i] : i \in 1..Len(result.operands)}
                    = {Expr("Has", p_tokens[1].lexeme, <<>>, FALSE, <<>>),
                       Expr("Has", p_tokens[3].lexeme, <<>>, FALSE, <<>>)}
                 /\ p_current = 3
        /\ TokensAre(<<"Neg", "LParen", "Str", "RParen", "EOF">>) =>
              /\ result = Expr("Not", <<>>, <<>>, FALSE,
                               <<Expr("Has", p_tokens[3].lexeme, <<>>, FALSE, <<>>)>>)
              /\ p_current = 4
        /\ TokensAre(<<"Neg", "Str", "EOF">>) =>
              /\ result = Expr("Not", <<>>, <<>>, FALSE,
                               <<Expr("Has", p_tokens[2].lexeme, <<>>, FALSE, <<>>)>>)
              /\ p_current = 2
        /\ (/\ Len(p_tokens) >= 2
            /\ p_tokens[1].type = "Str"
            /\ p_tokens[2].type \notin KeyContinuations \cup {"And", "Or", "EOF"}) =>
              /\ FailedAt(p_tokens[2])
              /\ p_current = 1

\* a&&b has been parsed: each KEY took one token and left && to _and
C29_Witness ==
    /\ parseArg = <<"a", "&", "&", "b">>
    /\ result = Expr("And", <<>>, <<>>, FALSE,
                      <<Expr("Has", <<"a">>, <<>>, FALSE, <<>>),
                        Expr("Has", <<"b">>, <<>>, FALSE, <<>>)>>)
    /\ p_current = 3

\* a KEY followed by ( : the parse stopped on the token after the KEY
C29_WitnessLeftover ==
    /\ parseArg = <<"a", "!", "(", "b">>
    /\ FailedAt(p_tokens[2])
    /\ p_current = 1

-----------------------------------------------------------------------------
(* Angle brackets in identifiers *)

\* the position (0-based) after the run of identifier characters of in that
\* starts at position i
RunEnd(in, i) ==
    CHOOSE e \in i..Len(in) :
        /\ \A j \in i..(e - 1) : CharAt(in, j) \in IdentifierChars
        /\ e < Len(in) => CharAt(in, e) \notin IdentifierChars

AngleTokens == {"Lt", "LtEq", "Gt", "GtEq"}

\* C30: < and > are comparison operators only where a token starts: a token
\* that starts at < is Lt or LtEq and one that starts at > is Gt or GtEq, no
\* other token is one of these four, and a token that starts at a letter or
\* digit is the Identifier of the whole run of identifier characters from
\* there, the < and > of the run included (unless the run is a keyword).
C30_AngleBracketsInsideIdentifiers ==
    [][YieldedToken
       => LET token == Last(emitted')
              first == CharAt(s_input, s_start')
          IN /\ first = "<" => token.type \in {"Lt", "LtEq"}
             /\ first = ">" => token.type \in {"Gt", "GtEq"}
             /\ token.type \in AngleTokens =>
                   /\ first \in {"<", ">"}
                   /\ token.offset = s_start'
                   /\ token.lexeme = NoLexeme
             /\ (IsAlphaNumeric(first)
                 /\ Keyword(Substring(s_input, s_start', RunEnd(s_input, s_start'))) = "") =>
                   /\ token = Token("Str", s_start',
                                    Substring(s_input, s_start', RunEnd(s_input, s_start')))
                   /\ s_current' = RunEnd(s_input, s_start')]_vars

\* a<C-r> < 2 has been scanned to an Identifier, Lt, an Identifier and EOF
C30_Witness ==
    /\ scanDone
    /\ s_input = <<"a", "<", "C", "-", "r", ">", " ", "<", " ", "2">>
    /\ emitted = <<Token("Str", 0, <<"a", "<", "C", "-", "r", ">">>),
                   Token("Lt", 7, NoLexeme),
                   Token("Str", 9, <<"2">>),
                   Token("EOF", 10, NoLexeme)>>

-----------------------------------------------------------------------------
(* Serialization *)

\* a new parser's parse of the serialization of expr
Reparsed(expr) == FreshParse(Serialize(expr))

-----------------------------------------------------------------------------
(* The characters the tokens of a scan cover *)

\* the index of the first character of the input that token stands for: a
\* quoted string's and a regex literal's offset is the index after the
\* opening delimiter
TokenStart(token) ==
    IF token.type \in {"QuotedStr", "RegexStr", "RegexStrI"} THEN token.offset - 1
    ELSE token.offset

\* the index after the last character of in that token stands for
TokenEnd(in, token) ==
    CASE token.type \in {"LParen", "RParen", "Neg", "Lt", "Gt"} -> token.offset + 1
      [] token.type \in {"LtEq", "GtEq", "And", "Or", "RegexOp"} -> token.offset + 2
      [] token.type \in {"Eq", "NotEq"} ->
           IF token.offset + 2 < Len(in) /\ CharAt(in, token.offset + 2) = "="
           THEN token.offset + 3 ELSE token.offset + 2
      [] token.type = "In" -> token.offset + 2
      [] token.type = "Not" -> token.offset + 3
      [] token.type = "True" -> token.offset + 4
      [] token.type = "False" -> token.offset + 5
      [] token.type \in {"Str", "Error"} -> token.offset + Len(token.lexeme)
      [] token.type \in {"QuotedStr", "RegexStr"} -> token.offset + Len(token.lexeme) + 1
      [] token.type = "RegexStrI" -> token.offset + Len(token.lexeme) + 2
      [] OTHER -> token.offset

\* the character at index i of the input lies in the span of an emitted token
Covered(i) ==
    \E k \in 1..Len(emitted) :
        TokenStart(emitted[k]) <= i /\ i < TokenEnd(s_input, emitted[k])

\* C31: after a complete scan every character of the input that is no
\* whitespace lies in the span of an emitted token, the character after an
\* Error token too.
C31_OnlyWhitespaceIsSkipped ==
    scanDone =>
        \A i \in 0..(Len(s_input) - 1) :
            ~IsWhitespace(CharAt(s_input, i)) => Covered(i)

\* C32: a slash that starts a token and has no closing slash yields one
\* Error token, and the token after it is EOF.
C32_UnterminatedRegexEndsTheScan ==
    scanDone =>
        \A k \in 1..Len(emitted) :
            (/\ emitted[k].type = "Error"
             /\ CharAt(s_input, emitted[k].offset) = "/") =>
                /\ k + 1 = Len(emitted)
                /\ emitted[k + 1].type = "EOF"

-----------------------------------------------------------------------------
(* Exceptions *)

\* the tokens are those of KEY =~ /pattern/ with a pattern that new RegExp
\* rejects
UncompilableNativeRegex ==
    /\ Len(p_tokens) >= 4
    /\ p_tokens[1].type = "Str"
    /\ p_tokens[2].type = "RegexOp"
    /\ p_tokens[3].type \in {"RegexStr", "RegexStrI"}
    /\ RegExpThrows(p_tokens[3].lexeme)

\* C33: no exception leaves parse: the try statement ends by its return or
\* in its catch clause, parse returns a tree or undefined, and when new RegExp
\* throws on the pattern of a native regex literal parse returns undefined
\* with exactly one parsing error, recorded at the token after the literal.
C33_ParseNeverThrows ==
    (CalledNonEmpty /\ s_errorTokens = <<>>) =>
        /\ ParserTry(p_tokens).status \in {"ok", "caught"}
        /\ result = Undefined \/ IsTree(result)
        /\ UncompilableNativeRegex =>
              /\ ParserTry(p_tokens).status = "caught"
              /\ result = Undefined
              /\ Len(p_parsingErrors) = 1
              /\ p_parsingErrors[1].token = p_tokens[4]

\* a =~ /(b/ has been parsed: new RegExp threw and parse returned undefined
C33_Witness ==
    /\ parseArg = <<"a", " ", "=", "~", " ", "/", "(", "b", "/">>
    /\ UncompilableNativeRegex
    /\ result = Undefined
    /\ Len(p_parsingErrors) = 1

-----------------------------------------------------------------------------
(* Token offsets *)

LexemeTokens == {"Str", "QuotedStr", "RegexStr", "RegexStrI", "Error"}

\* the offsets of the emitted tokens increase strictly
OffsetsIncrease ==
    \A k \in 1..(Len(emitted) - 1) : emitted[k].offset < emitted[k + 1].offset

\* every emitted offset is an index of the input or its length
OffsetsInRange ==
    \A k \in 1..Len(emitted) :
        0 <= emitted[k].offset /\ emitted[k].offset <= Len(s_input)

\* the lexeme of every emitted token that carries one is the text of the
\* input at the token's offset
LexemesAtOffsets ==
    \A k \in 1..Len(emitted) :
        emitted[k].type \in LexemeTokens =>
            /\ emitted[k].offset + Len(emitted[k].lexeme) <= Len(s_input)
            /\ Substring(s_input, emitted[k].offset,
                         emitted[k].offset + Len(emitted[k].lexeme))
               = emitted[k].lexeme

\* C34: after a complete scan the offsets of the tokens increase strictly,
\* each lies between 0 and the length of the input, and the lexeme of each
\* Identifier, QuotedString, regex and Error token is the text of the input
\* at the token's offset.
C34_OffsetsAreConsistent ==
    scanDone => OffsetsIncrease /\ OffsetsInRange /\ LexemesAtOffsets

-----------------------------------------------------------------------------
(* errorTokens *)

IsErrorToken(token) == token.type = "Error"

\* C35: after a complete scan errorTokens is the sequence of the Error
\* tokens among the emitted tokens, in their order; it is empty exactly when
\* no emitted token is an Error token.
C35_ErrorTokensAreTheEmittedErrors ==
    scanDone =>
        /\ s_errorTokens = SelectSeq(emitted, IsErrorToken)
        /\ s_errorTokens = <<>> <=> \A k \in 1..Len(emitted) : emitted[k].type # "Error"

\* = = has been scanned: two Error tokens were emitted and recorded
C35_Witness ==
    /\ scanDone
    /\ s_input = <<"=", " ", "=">>
    /\ emitted = <<Token("Error", 0, <<"=">>), Token("Error", 2, <<"=">>),
                   Token("EOF", 3, NoLexeme)>>
    /\ s_errorTokens = <<Token("Error", 0, <<"=">>), Token("Error", 2, <<"=">>)>>

-----------------------------------------------------------------------------
(* Inputs of whitespace *)

OnlyWhitespace(input) == \A i \in 1..Len(input) : IsWhitespace(input[i])

\* C36: a non-empty input of whitespace only is not an empty input: it is
\* scanned to the EOF token alone, without lexing error, and parse returns
\* undefined with exactly one parsing error, whose token is that EOF token.
C36_WhitespaceOnlyIsNotEmpty ==
    (CalledNonEmpty /\ OnlyWhitespace(parseArg)) =>
        /\ result = Undefined
        /\ s_errorTokens = <<>>
        /\ p_tokens = <<Token("EOF", Len(parseArg), NoLexeme)>>
        /\ Len(p_parsingErrors) = 1
        /\ p_parsingErrors[1].token = Token("EOF", Len(parseArg), NoLexeme)

\* a blank, a newline and a blank have been parsed
C36_Witness ==
    /\ parseArg = <<" ", "\n", " ">>
    /\ result = Undefined
    /\ Len(p_parsingErrors) = 1
    /\ p_parsingErrors[1].token.type = "EOF"

-----------------------------------------------------------------------------
(* The parser's cursor *)

\* the index of the EOF token in Parser._tokens
EOFIndex == Len(p_tokens) - 1

\* a production that started at cursor c and ended as r moved the cursor
\* forward or not at all, and not past the EOF token
CursorStays(r, c) == c <= r.cur /\ r.cur <= EOFIndex

\* C37: while parse runs the grammar the cursor stays between 0 and the
\* index of the EOF token and never moves back: the EOF token is the last
\* token, parse ends with the cursor in that range, every production
\* started at a cursor in that range ends at that cursor or a later one in
\* the range, _advance moves the cursor by one or, at EOF, not at all, and a
\* _match that succeeds leaves the cursor at 1 or more, where _previous()
\* reads the token matched.
C37_CursorStaysInsideTheTokens ==
    (CalledNonEmpty /\ s_errorTokens = <<>>) =>
        /\ \A k \in 1..Len(p_tokens) : (p_tokens[k].type = "EOF") <=> (k = Len(p_tokens))
        /\ 0 <= p_current /\ p_current <= EOFIndex
        /\ \A c \in 0..EOFIndex :
              /\ CursorStays(ParserExpr(p_tokens, c, <<>>), c)
              /\ CursorStays(ParserAnd(p_tokens, c, <<>>, <<>>), c)
              /\ CursorStays(ParserTerm(p_tokens, c, <<>>), c)
              /\ CursorStays(ParserPrimary(p_tokens, c, <<>>), c)
              /\ ParserAdvance(p_tokens, c) \in {c, c + 1}
              /\ ParserAdvance(p_tokens, c) <= EOFIndex
              /\ ParserMatches(p_tokens, c, {ParserPeek(p_tokens, c).type}) =>
                    /\ ParserMatch(p_tokens, c, {ParserPeek(p_tokens, c).type}) = c + 1
                    /\ ParserPrevious(p_tokens, c + 1) = ParserPeek(p_tokens, c)

\* a&&( has been parsed: the parse failed with the cursor on the EOF token
C37_Witness ==
    /\ parseArg = <<"a", "&", "&", "(">>
    /\ result = Undefined
    /\ Len(p_tokens) = 4
    /\ p_current = EOFIndex

====
